---- MODULE Spec2Model ----
(***************************************************************************)
(* A model of the IPS training games (LogicCrafterIO/ips-training-games):  *)
(* the voxel carver, the invisible die and the three revisions of the      *)
(* blind grid.                                                             *)
(*                                                                         *)
(* Conventions                                                             *)
(*  - A JavaScript string is a sequence of pieces; digits and typed        *)
(*    characters are one-character pieces, a literal chunk of a template   *)
(*    string is one piece.                                                 *)
(*  - A JavaScript array of objects is a sequence of heap addresses; the   *)
(*    heap is a sequence of objects and an address is an index into it.    *)
(*    The apply functions are modelled on the heap (copy, then mutate the  *)
(*    copy) and read back as values.                                       *)
(*  - Math.random() is k / RandDen for a natural k < RandDen.              *)
(*  - crypto.randomUUID() command ids are only React keys and are left     *)
(*    out of the command records.                                          *)
(***************************************************************************)
EXTENDS Integers, Sequences, FiniteSets, TLC

VARIABLES
    page,               \* which page (game revision) is open
    \* --- the transformation engine, one call at a time ---
    initial,            \* the configuration the run started from
    state,              \* `current` of the startGame loop
    before,             \* a copy of the input captured before the last call
    inputAfter,         \* the input object as it reads after the last call
    cmd,                \* the command of the last call
    outcome,            \* "none" | "ok" | "TypeError" of the last call
    steps,              \* number of calls made
    runBase,            \* the input of the first call of the current run of rotations
    runLen,             \* number of rotations applied in a row, up to the last call
    prevCmd,            \* die: the command of the call before the last
    before2,            \* die: the input of the call before the last
    \* --- one page component: its React state and its pending timers ---
    phase,
    commandList,
    history,            \* history / gameHistory
    finalState,         \* finalVoxels / finalState / expectedGrid
    originalGrid,
    currentCommandIdx,
    showCommandText,
    userInput,          \* userInputs / userAnswer / userGrid
    targetFace,
    timers,             \* the setTimeout callbacks not yet run or cleared
    started,            \* startGame has run since the component was mounted
    submits,            \* calls of handleSubmit / checkResult since the last startGame
    shown,              \* indices of the commands whose text the screen displayed since the last startGame
    idxAtRun,           \* currentCommandIdx as the callback that began the running phase of this session found it; -1 before it ran
    \* --- the generators ---
    genOut              \* what the last generator call returned

engineVars == <<initial, state, before, inputAfter, cmd, outcome, steps, runBase, runLen,
                prevCmd, before2>>
sessionVars == <<phase, commandList, history, finalState, originalGrid, currentCommandIdx,
                 showCommandText, userInput, targetFace, timers, started, submits,
                 shown, idxAtRun>>
vars == <<page, engineVars, sessionVars, genOut>>

\* ------------------------------------------------------------- bounds
MaxSteps == 2          \* voxel and die commands applied in a row
MaxGridSteps == 1      \* grid commands applied in a row
MaxRun == 4            \* rotations applied in a row, past the bounds above
NumCommands == 2       \* commands of a session (the pages ask for 3, 4 or 5)
RandDen == 3           \* Math.random() takes the values k / RandDen
TypeDen == 10          \* the draw that picks a command type takes the values k / TypeDen
MaxResample == 2       \* redraws of r2 the resampling loop of a SWAP makes at most
MaxCount == 2          \* the count a command generator is called with, at most

\* ------------------------------------------------------------- basics
Pages == {"voxel", "die", "grid_v1", "grid_v2", "part_000"}
GridPages == {"grid_v1", "grid_v2", "part_000"}

\* JS `undefined` in an optional numeric field or in a grid cell.
Undefined == -1
IsNumber(v) == v # Undefined

Idx == 0..2

SeqRange(s) == {s[i] : i \in 1..Len(s)}

Digit(d) == <<"0", "1", "2", "3", "4", "5", "6", "7", "8", "9">>[d + 1]

RECURSIVE NumToString(_)
NumToString(n) == IF n < 10 THEN <<Digit(n)>> ELSE NumToString(n \div 10) \o <<Digit(n % 10)>>

\* ============================================================ VOXEL
\* The loops nested the other way round: x outermost, z innermost.
RECURSIVE createCubeXOuterFrom(_, _, _, _, _)
createCubeXOuterFrom(x, y, z, counter, voxels) ==
    IF x >= 3 THEN voxels
    ELSE IF y >= 3 THEN createCubeXOuterFrom(x + 1, 0, 0, counter, voxels)
    ELSE IF z >= 3 THEN createCubeXOuterFrom(x, y + 1, 0, counter, voxels)
    ELSE createCubeXOuterFrom(x, y, z + 1, counter + 1,
            Append(voxels, [id |-> counter, val |-> counter,
                            x |-> x, y |-> y, z |-> z, active |-> TRUE]))

createCubeXOuter == createCubeXOuterFrom(0, 0, 0, 1, << >>)

\* for (let z ...) for (let y ...) for (let x ...) { voxels.push(...); counter++ },
\* from the iteration (z, y, x) on.
RECURSIVE createCubeFrom(_, _, _, _, _)
createCubeFrom(z, y, x, counter, voxels) ==
    IF z >= 3 THEN voxels
    ELSE IF y >= 3 THEN createCubeFrom(z + 1, 0, 0, counter, voxels)
    ELSE IF x >= 3 THEN createCubeFrom(z, y + 1, 0, counter, voxels)
    ELSE createCubeFrom(z, y, x + 1, counter + 1,
            Append(voxels, [id |-> counter, val |-> counter,
                            x |-> x, y |-> y, z |-> z, active |-> TRUE]))

createCube == createCubeFrom(0, 0, 0, 1, << >>)

\* voxels.map(v => v): the array is new, the objects are shared.
shallowCopyVoxels(heap, arr) == [heap |-> heap, ret |-> arr]

\* voxels.map(v => ({ ...v })): one new object per element.
deepCopyVoxels(heap, arr) ==
    [heap |-> heap \o [i \in 1..Len(arr) |-> heap[arr[i]]],
     ret  |-> [i \in 1..Len(arr) |-> Len(heap) + i]]

\* v.x = 2 - v.z; v.z = v.x  (the old x is not saved)
rotateVoxelNoOldX(v) ==
    IF ~v.active THEN v ELSE [v EXCEPT !.x = 2 - v.z, !.z = 2 - v.z]

\* v.z = v.x; v.x = 2 - v.z  (the old z is overwritten before it is read)
rotateVoxelNoOldZ(v) ==
    IF ~v.active THEN v ELSE [v EXCEPT !.z = v.x, !.x = 2 - v.x]

\* The body of the ROTATE_Y forEach.
rotateVoxel(v) ==
    IF ~v.active THEN v ELSE [v EXCEPT !.x = 2 - v.z, !.z = v.x]

\* The forEach bodies with the test of LASER_Z pasted into LASER_X.
voxelStepLaserXAlongZ(v, c) ==
    CASE c.type \in {"LASER_Z", "LASER_X"} ->
            IF v.x = c.targetIndex1 /\ v.y = c.targetIndex2
                THEN [v EXCEPT !.active = FALSE] ELSE v
      [] c.type = "LASER_Y" ->
            IF v.x = c.targetIndex1 /\ v.z = c.targetIndex2
                THEN [v EXCEPT !.active = FALSE] ELSE v
      [] c.type = "ROTATE_Y" -> rotateVoxel(v)
      [] OTHER -> v

\* The forEach bodies with lasers that flip the flag: v.active = !v.active.
voxelStepLaserFlips(v, c) ==
    CASE c.type = "LASER_Z" ->
            IF v.x = c.targetIndex1 /\ v.y = c.targetIndex2
                THEN [v EXCEPT !.active = ~@] ELSE v
      [] c.type = "LASER_X" ->
            IF v.y = c.targetIndex1 /\ v.z = c.targetIndex2
                THEN [v EXCEPT !.active = ~@] ELSE v
      [] c.type = "LASER_Y" ->
            IF v.x = c.targetIndex1 /\ v.z = c.targetIndex2
                THEN [v EXCEPT !.active = ~@] ELSE v
      [] c.type = "ROTATE_Y" -> rotateVoxel(v)
      [] OTHER -> v

\* The body of the forEach of each command type, on one voxel.
voxelStep(v, c) ==
    CASE c.type = "LASER_Z" ->
            IF v.x = c.targetIndex1 /\ v.y = c.targetIndex2
                THEN [v EXCEPT !.active = FALSE] ELSE v
      [] c.type = "LASER_X" ->
            IF v.y = c.targetIndex1 /\ v.z = c.targetIndex2
                THEN [v EXCEPT !.active = FALSE] ELSE v
      [] c.type = "LASER_Y" ->
            IF v.x = c.targetIndex1 /\ v.z = c.targetIndex2
                THEN [v EXCEPT !.active = FALSE] ELSE v
      [] c.type = "ROTATE_Y" -> rotateVoxel(v)
      [] OTHER -> v

\* applyCommand on the heap: copy, then mutate the objects of the copy.
applyCommandHeap(heap, currentVoxels, c) ==
    LET copy == deepCopyVoxels(heap, currentVoxels)
        touched == SeqRange(copy.ret)
    IN  [heap |-> [a \in 1..Len(copy.heap) |->
                      IF a \in touched THEN voxelStep(copy.heap[a], c)
                                       ELSE copy.heap[a]],
         ret  |-> copy.ret]

Deref(heap, arr) == [i \in 1..Len(arr) |-> heap[arr[i]]]

OwnRefs(voxels) == [i \in 1..Len(voxels) |-> i]

\* applyCommand that removes the destroyed voxels from the array it returns.
applyCommandDropDestroyed(voxels, c) ==
    LET res == applyCommandHeap(voxels, OwnRefs(voxels), c)
    IN  SelectSeq(Deref(res.heap, res.ret), LAMBDA v : v.active)

\* applyCommand as a function of values.
applyCommand(voxels, c) ==
    LET res == applyCommandHeap(voxels, OwnRefs(voxels), c)
    IN  Deref(res.heap, res.ret)

\* What the input array reads after applyCommand returned.
applyCommandInputAfter(voxels, c) ==
    LET res == applyCommandHeap(voxels, OwnRefs(voxels), c)
    IN  Deref(res.heap, OwnRefs(voxels))

\* The commands generateCommands can push.
VoxelRotateCmd ==
    [type |-> "ROTATE_Y", description |-> <<"Rotate Cube 90(deg) Clockwise">>,
     targetIndex1 |-> Undefined, targetIndex2 |-> Undefined]

\* The laser command with the depth of LASER_X printed as it is stored.
VoxelLaserCmdDepthAsStored(type, a, b) ==
    [type |-> type,
     description |->
        CASE type = "LASER_Z" ->
                <<"Fire Laser Front-to-Back at Col ">> \o NumToString(a + 1)
                    \o <<", Row ">> \o NumToString(b + 1)
          [] type = "LASER_X" ->
                <<"Fire Laser Side-to-Side at Row ">> \o NumToString(a + 1)
                    \o <<", Depth ">> \o NumToString(b)
          [] type = "LASER_Y" ->
                <<"Fire Laser Top-Down at Col ">> \o NumToString(a + 1)
                    \o <<", Depth ">> \o NumToString(b + 1),
     targetIndex1 |-> a, targetIndex2 |-> b]

VoxelLaserCmd(type, a, b) ==
    [type |-> type,
     description |->
        CASE type = "LASER_Z" ->
                <<"Fire Laser Front-to-Back at Col ">> \o NumToString(a + 1)
                    \o <<", Row ">> \o NumToString(b + 1)
          [] type = "LASER_X" ->
                <<"Fire Laser Side-to-Side at Row ">> \o NumToString(a + 1)
                    \o <<", Depth ">> \o NumToString(b + 1)
          [] type = "LASER_Y" ->
                <<"Fire Laser Top-Down at Col ">> \o NumToString(a + 1)
                    \o <<", Depth ">> \o NumToString(b + 1),
     targetIndex1 |-> a, targetIndex2 |-> b]

LaserTypes == {"LASER_X", "LASER_Y", "LASER_Z"}

VoxelCommands ==
    {VoxelRotateCmd} \cup {VoxelLaserCmd(t, a, b) : t \in LaserTypes, a \in Idx, b \in Idx}

\* A laser whose optional target indices are not both present.
VoxelMalformed ==
    {[VoxelLaserCmd(t, 0, 0) EXCEPT !.targetIndex1 = a, !.targetIndex2 = b] :
        t \in LaserTypes,
        a \in Idx \cup {Undefined},
        b \in {Undefined}}
    \cup
    {[VoxelLaserCmd(t, 0, 0) EXCEPT !.targetIndex1 = Undefined, !.targetIndex2 = b] :
        t \in LaserTypes, b \in Idx}

\* ============================================================== DIE
Faces == {"top", "bottom", "front", "back", "left", "right"}

INITIAL_DIE ==
    [top |-> 1, bottom |-> 6, front |-> 2, back |-> 5, right |-> 3, left |-> 4]

DieTypes ==
    {"ROLL_FORWARD", "ROLL_BACKWARD", "ROLL_RIGHT", "ROLL_LEFT", "ROTATE_CW", "ROTATE_CCW"}

\* const types of generateCommands, in the order of the array
types ==
    <<"ROLL_FORWARD", "ROLL_BACKWARD", "ROLL_RIGHT", "ROLL_LEFT", "ROTATE_CW", "ROTATE_CCW">>

\* const next = current: no new object.
aliasDie(heap, cur) == [heap |-> heap, ret |-> cur]

\* const next = { ...current }
spreadDie(heap, cur) == [heap |-> Append(heap, heap[cur]), ret |-> Len(heap) + 1]

\* The cases with the `break` of ROLL_FORWARD missing: its assignments are
\* followed by those of ROLL_BACKWARD.
dieAssignmentsNoBreak(type) ==
    CASE type = "ROLL_FORWARD" ->
            << <<"front", "top">>, <<"bottom", "front">>, <<"back", "bottom">>, <<"top", "back">>,
               <<"back", "top">>, <<"bottom", "back">>, <<"front", "bottom">>, <<"top", "front">> >>
      [] type = "ROLL_BACKWARD" ->
            << <<"back", "top">>, <<"bottom", "back">>, <<"front", "bottom">>, <<"top", "front">> >>
      [] type = "ROLL_RIGHT" ->
            << <<"right", "top">>, <<"bottom", "right">>, <<"left", "bottom">>, <<"top", "left">> >>
      [] type = "ROLL_LEFT" ->
            << <<"left", "top">>, <<"bottom", "left">>, <<"right", "bottom">>, <<"top", "right">> >>
      [] type = "ROTATE_CW" ->
            << <<"right", "front">>, <<"back", "right">>, <<"left", "back">>, <<"front", "left">> >>
      [] type = "ROTATE_CCW" ->
            << <<"left", "front">>, <<"back", "left">>, <<"right", "back">>, <<"front", "right">> >>
      [] OTHER -> << >>

\* The assignments of each case, in order, as <<written face, read face>>.
dieAssignments(type) ==
    CASE type = "ROLL_FORWARD" ->
            << <<"front", "top">>, <<"bottom", "front">>, <<"back", "bottom">>, <<"top", "back">> >>
      [] type = "ROLL_BACKWARD" ->
            << <<"back", "top">>, <<"bottom", "back">>, <<"front", "bottom">>, <<"top", "front">> >>
      [] type = "ROLL_RIGHT" ->
            << <<"right", "top">>, <<"bottom", "right">>, <<"left", "bottom">>, <<"top", "left">> >>
      [] type = "ROLL_LEFT" ->
            << <<"left", "top">>, <<"bottom", "left">>, <<"right", "bottom">>, <<"top", "right">> >>
      [] type = "ROTATE_CW" ->
            << <<"right", "front">>, <<"back", "right">>, <<"left", "back">>, <<"front", "left">> >>
      [] type = "ROTATE_CCW" ->
            << <<"left", "front">>, <<"back", "left">>, <<"right", "back">>, <<"front", "right">> >>
      [] OTHER -> << >>

\* next.<w> = current.<r>, one assignment after the other.
\* The assignments without the last one of each case.
RECURSIVE dieAssignSkipsLast(_, _, _, _)
dieAssignSkipsLast(heap, next, cur, as) ==
    IF Len(as) <= 1 THEN heap
    ELSE dieAssignSkipsLast([heap EXCEPT ![next] = [@ EXCEPT ![as[1][1]] = heap[cur][as[1][2]]]],
                            next, cur, Tail(as))

\* next.<w> = next.<r>: the faces are read from the object being written.
RECURSIVE dieAssignReadsNext(_, _, _, _)
dieAssignReadsNext(heap, next, cur, as) ==
    IF as = << >> THEN heap
    ELSE dieAssignReadsNext([heap EXCEPT ![next] = [@ EXCEPT ![as[1][1]] = heap[next][as[1][2]]]],
                            next, cur, Tail(as))

RECURSIVE dieAssign(_, _, _, _)
dieAssign(heap, next, cur, as) ==
    IF as = << >> THEN heap
    ELSE dieAssign([heap EXCEPT ![next] = [@ EXCEPT ![as[1][1]] = heap[cur][as[1][2]]]],
                   next, cur, Tail(as))

applyDieCommandHeap(heap, cur, type) ==
    LET n == spreadDie(heap, cur)
    IN  [heap |-> dieAssign(n.heap, n.ret, cur, dieAssignments(type)), ret |-> n.ret]

\* applyDieCommand with the body of one case pasted into its opposite.
applyDieCommandBackwardAsForward(current, type) ==
    LET t == IF type = "ROLL_BACKWARD" THEN "ROLL_FORWARD" ELSE type
        res == applyDieCommandHeap(<<current>>, 1, t)
    IN  res.heap[res.ret]

applyDieCommandCcwAsCw(current, type) ==
    LET t == IF type = "ROTATE_CCW" THEN "ROTATE_CW" ELSE type
        res == applyDieCommandHeap(<<current>>, 1, t)
    IN  res.heap[res.ret]

applyDieCommandRightAsLeft(current, type) ==
    LET t == IF type = "ROLL_RIGHT" THEN "ROLL_LEFT" ELSE type
        res == applyDieCommandHeap(<<current>>, 1, t)
    IN  res.heap[res.ret]

applyDieCommand(current, type) ==
    LET res == applyDieCommandHeap(<<current>>, 1, type) IN res.heap[res.ret]

applyDieCommandInputAfter(current, type) ==
    LET res == applyDieCommandHeap(<<current>>, 1, type) IN res.heap[1]

DieDescription(type) ==
    CASE type = "ROLL_FORWARD" -> <<"Roll Forward">>
      [] type = "ROLL_BACKWARD" -> <<"Roll Backward">>
      [] type = "ROLL_RIGHT" -> <<"Roll Right">>
      [] type = "ROLL_LEFT" -> <<"Roll Left">>
      [] type = "ROTATE_CW" -> <<"Spin 90(deg) Clockwise">>
      [] type = "ROTATE_CCW" -> <<"Spin 90(deg) Counter-Clockwise">>

DieCmd(type) == [type |-> type, description |-> DieDescription(type)]

DieCommands == {DieCmd(t) : t \in DieTypes}

\* ============================================================= GRID
\* The three revisions of the blind grid: "grid_v1" is the first program of
\* blind-grid/page.tsx (ordered start, no timers), "grid_v2" the second one
\* in that file (random start, no history), "part_000" the third revision.
N == 3

\* A JS array of three elements, indexed 0..2 as in the source.
Array3(a, b, c) == (0 :> a @@ 1 :> b @@ 2 :> c)

\* The grid whose k-th cell in row-major order is 1 + ((a * k + b) % 9).
LinearGrid(a, b) ==
    LET cell(k) == 1 + ((a * k + b) % 9)
    IN  Array3(Array3(cell(0), cell(1), cell(2)),
               Array3(cell(3), cell(4), cell(5)),
               Array3(cell(6), cell(7), cell(8)))

OrderedGrid == Array3(Array3(1, 2, 3), Array3(4, 5, 6), Array3(7, 8, 9))

\* applyCommand of grid_v1 and part_000 tests typeof ... === 'number'.
Guarded(pg) == pg \in {"grid_v1", "part_000"}

\* grid.map(row => [...row]): three new rows.
deepCopyGrid(heap, grid) ==
    [heap |-> heap \o <<heap[grid[0]], heap[grid[1]], heap[grid[2]]>>,
     ret  |-> Array3(Len(heap) + 1, Len(heap) + 2, Len(heap) + 3)]

\* const rotated = newGrid: the copy made last is written in place.
reuseCopy(heap) ==
    [heap |-> heap, ret |-> Array3(Len(heap) - 2, Len(heap) - 1, Len(heap))]

\* Array.from({ length: N }, () => Array(N).fill(0))
zeroGrid(heap) ==
    [heap |-> heap \o <<Array3(0, 0, 0), Array3(0, 0, 0), Array3(0, 0, 0)>>,
     ret  |-> Array3(Len(heap) + 1, Len(heap) + 2, Len(heap) + 3)]

\* g[r][c] with r a number; an undefined column reads undefined.
readCell(heap, g, r, c) == IF IsNumber(c) THEN heap[g[r]][c] ELSE Undefined

\* g[r][c] = v with r a number. With c undefined the assignment sets the
\* property "undefined" of the row, which is no element of it: the three
\* cells stay as they are and the next [...row] drops the property.
writeCell(heap, g, r, c, v) ==
    IF IsNumber(c) THEN [heap EXCEPT ![g[r]] = [@ EXCEPT ![c] = v]] ELSE heap

\* for r, for c: rotated[c][r] = newGrid[r][c]  (a transposition)
RECURSIVE rotateLoopTranspose(_, _, _, _)
rotateLoopTranspose(k, heap, rotated, newGrid) ==
    IF k = N * N THEN heap
    ELSE LET r == k \div N
             c == k % N
         IN  rotateLoopTranspose(k + 1,
                                 writeCell(heap, rotated, c, r, readCell(heap, newGrid, r, c)),
                                 rotated, newGrid)

\* for r, for c: rotated[c][N - 1 - c] = newGrid[r][c]: each row of the
\* result receives its three values in one cell.
RECURSIVE rotateLoopOneCell(_, _, _, _)
rotateLoopOneCell(k, heap, rotated, newGrid) ==
    IF k = N * N THEN heap
    ELSE LET r == k \div N
             c == k % N
         IN  rotateLoopOneCell(k + 1,
                               writeCell(heap, rotated, c, N - 1 - c, readCell(heap, newGrid, r, c)),
                               rotated, newGrid)

\* for r, for c: rotated[c][N - 1 - r] = newGrid[r][c]
RECURSIVE rotateLoop(_, _, _, _)
rotateLoop(k, heap, rotated, newGrid) ==
    IF k = N * N THEN heap
    ELSE LET r == k \div N
             c == k % N
         IN  rotateLoop(k + 1,
                        writeCell(heap, rotated, c, N - 1 - r, readCell(heap, newGrid, r, c)),
                        rotated, newGrid)

\* for (c = 0; c < N - 1; c++): the last cell of the row is left out.
RECURSIVE setRowLoopStopsEarly(_, _, _, _, _)
setRowLoopStopsEarly(c, heap, newGrid, row, val) ==
    IF c >= N - 1 THEN heap
    ELSE setRowLoopStopsEarly(c + 1, writeCell(heap, newGrid, row, c, val), newGrid, row, val)

\* for c: newGrid[row][c] = val
RECURSIVE setRowLoop(_, _, _, _, _)
setRowLoop(c, heap, newGrid, row, val) ==
    IF c = N THEN heap
    ELSE setRowLoop(c + 1, writeCell(heap, newGrid, row, c, val), newGrid, row, val)

\* g[r1][c1] = g[r2][c2]; g[r2][c2] = g[r1][c1]  (no temp)
swapCellsNoTemp(heap, g, r1, c1, r2, c2) ==
    LET h1 == writeCell(heap, g, r1, c1, readCell(heap, g, r2, c2))
    IN  writeCell(h1, g, r2, c2, readCell(h1, g, r1, c1))

\* temp = g[r1][c1]; g[r1][c1] = g[r2][c2]; g[r2][c2] = temp
swapCells(heap, g, r1, c1, r2, c2) ==
    LET temp == readCell(heap, g, r1, c1)
        h1 == writeCell(heap, g, r1, c1, readCell(heap, g, r2, c2))
    IN  writeCell(h1, g, r2, c2, temp)

\* applyCommand of the grid on the heap. threw: a TypeError left the call.
applyGridCommandHeap(pg, heap, grid, c) ==
    LET copy == deepCopyGrid(heap, grid)
        unchanged == [heap |-> copy.heap, ret |-> copy.ret, threw |-> FALSE]
        thrown == [heap |-> copy.heap, ret |-> grid, threw |-> TRUE]
    IN  CASE c.type = "ROTATE_CW" ->
                LET rot == zeroGrid(copy.heap)
                IN  [heap |-> rotateLoop(0, rot.heap, rot.ret, copy.ret),
                     ret |-> rot.ret, threw |-> FALSE]
          [] c.type = "SWAP" ->
                IF Guarded(pg)
                THEN IF c.hasParams /\ IsNumber(c.r1) /\ IsNumber(c.c1)
                                    /\ IsNumber(c.r2) /\ IsNumber(c.c2)
                     THEN [heap |-> swapCells(copy.heap, copy.ret, c.r1, c.c1, c.r2, c.c2),
                           ret |-> copy.ret, threw |-> FALSE]
                     ELSE unchanged
                \* grid_v2: destructuring undefined, or indexing newGrid[undefined], throws
                ELSE IF ~c.hasParams \/ ~IsNumber(c.r1) \/ ~IsNumber(c.r2)
                     THEN thrown
                     ELSE [heap |-> swapCells(copy.heap, copy.ret, c.r1, c.c1, c.r2, c.c2),
                           ret |-> copy.ret, threw |-> FALSE]
          [] c.type = "SET_ROW" ->
                IF Guarded(pg)
                THEN IF c.hasParams /\ IsNumber(c.row) /\ IsNumber(c.val)
                     THEN [heap |-> setRowLoop(0, copy.heap, copy.ret, c.row, c.val),
                           ret |-> copy.ret, threw |-> FALSE]
                     ELSE unchanged
                ELSE IF ~c.hasParams \/ ~IsNumber(c.row)
                     THEN thrown
                     ELSE [heap |-> setRowLoop(0, copy.heap, copy.ret, c.row, c.val),
                           ret |-> copy.ret, threw |-> FALSE]
          [] OTHER -> unchanged

GridHeap(grid) == <<grid[0], grid[1], grid[2]>>
GridRefs == Array3(1, 2, 3)
DerefGrid(heap, g) == Array3(heap[g[0]], heap[g[1]], heap[g[2]])

applyGridCommand(pg, grid, c) ==
    LET res == applyGridCommandHeap(pg, GridHeap(grid), GridRefs, c)
    IN  DerefGrid(res.heap, res.ret)

applyGridCommandThrows(pg, grid, c) ==
    applyGridCommandHeap(pg, GridHeap(grid), GridRefs, c).threw

applyGridCommandInputAfter(pg, grid, c) ==
    LET res == applyGridCommandHeap(pg, GridHeap(grid), GridRefs, c)
    IN  DerefGrid(res.heap, GridRefs)

\* The commands generateRandomCommands can push.
GridRotateCmd ==
    [type |-> "ROTATE_CW", description |-> <<"Rotate 90(deg) Clockwise">>, hasParams |-> FALSE,
     r1 |-> Undefined, c1 |-> Undefined, r2 |-> Undefined, c2 |-> Undefined,
     row |-> Undefined, val |-> Undefined]

GridSwapCmd(pg, r1, c1, r2, c2) ==
    [type |-> "SWAP",
     description |->
        <<IF pg = "grid_v2" THEN "Swap value at (" ELSE "Swap (">> \o NumToString(r1) \o <<",">>
            \o NumToString(c1) \o <<") with (">> \o NumToString(r2) \o <<",">> \o NumToString(c2) \o <<")">>,
     hasParams |-> TRUE,
     r1 |-> r1, c1 |-> c1, r2 |-> r2, c2 |-> c2, row |-> Undefined, val |-> Undefined]

GridSetRowCmd(rowIdx, val) ==
    [type |-> "SET_ROW",
     description |-> <<"Set Row ">> \o NumToString(rowIdx + 1) \o <<" to all Zeros">>,
     hasParams |-> TRUE,
     r1 |-> Undefined, c1 |-> Undefined, r2 |-> Undefined, c2 |-> Undefined,
     row |-> rowIdx, val |-> val]

\* Swaps of two distinct cells, as the resampling loop leaves them.
GridSwapCommands(pg) ==
    {GridSwapCmd(pg, r1, c1, r2, c2) :
        <<r1, c1, r2, c2>> \in {q \in Idx \X Idx \X Idx \X Idx : ~(q[1] = q[3] /\ q[2] = q[4])}}

GridCommands(pg) ==
    {GridRotateCmd} \cup GridSwapCommands(pg) \cup {GridSetRowCmd(r, 0) : r \in Idx}

\* Commands a caller can build that the generator does not: a swap of a cell
\* with itself, a row set to a value other than 0.
GridEqualSwaps(pg) == {GridSwapCmd(pg, r, c, r, c) : r \in Idx, c \in Idx}

GridEngineCommands(pg) ==
    GridCommands(pg) \cup GridEqualSwaps(pg) \cup {GridSetRowCmd(r, 7) : r \in Idx}

\* A command whose type is none of CommandType; applyCommand compares cmd.type
\* with its three types and falls through to `return newGrid`.
GridUnknownType ==
    {[GridRotateCmd EXCEPT !.type = "MIRROR_H", !.description = <<"Mirror Horizontal">>]}

\* A SWAP or SET_ROW whose params object, or one of its fields, is missing.
GridMalformed(pg) ==
    {[GridSwapCmd(pg, 0, 1, 1, 2) EXCEPT !.hasParams = FALSE, !.r1 = Undefined,
         !.c1 = Undefined, !.r2 = Undefined, !.c2 = Undefined],
     [GridSetRowCmd(1, 0) EXCEPT !.hasParams = FALSE, !.row = Undefined, !.val = Undefined]}
    \cup {[GridSwapCmd(pg, 0, 1, 1, 2) EXCEPT ![f] = Undefined] : f \in {"r1", "c1", "r2", "c2"}}
    \cup {[GridSetRowCmd(1, 0) EXCEPT ![f] = Undefined] : f \in {"row", "val"}}

\* Start grids of the engine runs: the ordered grid and grids the random
\* generateGrid can return (every cell in 1..9), with and without repeats.
GridInputs ==
    {LinearGrid(a, b) : a \in 0..3, b \in 0..1}


\* ========================================================== STRINGS
DigitChars == {Digit(d) : d \in 0..9}

\* /^\d+$/.test(value)
IsDigits(s) == s # << >> /\ \A i \in 1..Len(s) : s[i] \in DigitChars

\* ========================================================== SCORING
\* `${z}-${y}-${x}`
CellKey(z, y, x) == NumToString(z) \o <<"-">> \o NumToString(y) \o <<"-">> \o NumToString(x)

\* finalVoxels.find(v => v.x === x && v.y === y && v.z === z): the first
\* match in array order, << >> for undefined.
findVoxel(voxels, x, y, z) ==
    LET hits == {i \in 1..Len(voxels) : voxels[i].x = x /\ voxels[i].y = y /\ voxels[i].z = z}
    IN  IF hits = {} THEN << >>
        ELSE <<voxels[CHOOSE i \in hits : \A k \in hits : i <= k]>>

\* (actualVoxel && actualVoxel.active) ? actualVoxel.val.toString() : ''
actualVal(voxels, x, y, z) ==
    LET found == findVoxel(voxels, x, y, z)
    IN  IF found # << >> /\ found[1].active THEN NumToString(found[1].val) ELSE << >>

\* SliceView: what the cell (col, row) of slice zIndex shows, << >> for ''.
sliceCell(voxels, zIndex, row, col) ==
    LET v == findVoxel(voxels, col, row, zIndex)
    IN  IF v # << >> /\ v[1].active THEN <<v[1].val>> ELSE << >>

\* userInputs[key] ?? '0': a coordinate never filled reads as "0".
userValDefaultZero(inputs, z, y, x) ==
    LET key == CellKey(z, y, x)
    IN  IF key \in DOMAIN inputs THEN inputs[key] ELSE <<"0">>

\* userInputs[key] || ''
userVal(inputs, z, y, x) ==
    LET key == CellKey(z, y, x)
    IN  IF key \in DOMAIN inputs /\ inputs[key] # << >> THEN inputs[key] ELSE << >>

\* actualVal === userVal, the test of getResultStats for one coordinate
cellCorrect(voxels, inputs, z, y, x) == actualVal(voxels, x, y, z) = userVal(inputs, z, y, x)

getResultStats(voxels, inputs) ==
    [correct |-> Cardinality({q \in Idx \X Idx \X Idx :
                                cellCorrect(voxels, inputs, q[1], q[2], q[3])}),
     total |-> 27]

\* The value parseInt and Number give for a string that is not a number.
NaN == -2

\* The digit a character stands for.
digitOf(ch) == CHOOSE d \in 0..9 : Digit(d) = ch

\* parseInt(str) on the strings an input holds: the number its longest prefix
\* of digits writes in base 10, NaN if the string does not begin with a digit.
RECURSIVE parseIntFrom(_, _, _)
parseIntFrom(str, k, acc) ==
    IF k > Len(str) \/ str[k] \notin DigitChars
    THEN acc
    ELSE parseIntFrom(str, k + 1, (IF acc = NaN THEN 0 ELSE 10 * acc) + digitOf(str[k]))

parseInt(str) == parseIntFrom(str, 1, NaN)

\* Number(userGrid[r][c]) === expectedGrid[r][c]: Number('') is 0.
isCorrectNumber(userGrid, expectedGrid, r, c) ==
    LET str == userGrid[r][c]
        parsed == IF str = << >> THEN 0
                  ELSE IF IsDigits(str) THEN parseInt(str) ELSE NaN
    IN  parsed # NaN /\ parsed = expectedGrid[r][c]

\* parseInt(userGrid[r][c]) === expectedGrid[r][c]; NaN equals nothing.
isCorrect(userGrid, expectedGrid, r, c) ==
    LET parsed == parseInt(userGrid[r][c])
    IN  parsed # NaN /\ parsed = expectedGrid[r][c]

\* parseInt(userAnswer) === finalState[targetFace] of the die's result screen
answerCorrect(userAnswer, die, face) ==
    LET parsed == parseInt(userAnswer)
    IN  parsed # NaN /\ parsed = die[face]

\* The cells the result screen marks correct.
correctCells(userGrid, expectedGrid) ==
    {q \in Idx \X Idx : isCorrect(userGrid, expectedGrid, q[1], q[2])}

\* ============================================================ SESSION
HasEffect(pg) == pg # "grid_v1"
HasHistory(pg) == pg # "grid_v2"

MemorizePhase(pg) == IF pg \in {"voxel", "die"} THEN "memorize" ELSE "flash"
RunningPhase(pg) == IF pg \in {"voxel", "die"} THEN "running" ELSE "blackout"
QuestionPhase(pg) ==
    CASE pg \in {"voxel", "die"} -> "question"
      [] pg = "grid_v1" -> "solving"
      [] OTHER -> "reconstruction"

\* The delays of the setTimeout calls, in milliseconds.
MemorizeMs(pg) == IF pg = "voxel" THEN 6000 ELSE 5000
GapMs(pg) == IF pg \in {"voxel", "die"} THEN 800 ELSE 600
ShowMs(pg) == IF pg = "die" THEN 3500 ELSE 4000

\* The state each useState starts with.
SessionMounted ==
    /\ phase = "idle"
    /\ commandList = << >>
    /\ history = << >>
    /\ finalState = IF page = "die" THEN INITIAL_DIE ELSE << >>
    /\ originalGrid = << >>
    /\ currentCommandIdx = -1
    /\ showCommandText = FALSE
    /\ userInput = << >>
    /\ targetFace = "top"
    /\ timers = {}
    /\ started = FALSE
    /\ submits = 0
    /\ shown = << >>
    /\ idxAtRun = -1

ApplyValue(pg, st, c) ==
    CASE pg = "voxel" -> applyCommand(st, c)
      [] pg = "die" -> applyDieCommand(st, c.type)
      [] OTHER -> applyGridCommand(pg, st, c)

StartDescription(pg) ==
    CASE pg = "die" -> <<"Initial Position">>
      [] pg = "grid_v1" -> <<"Start Configuration (1-9)">>
      [] OTHER -> <<"Start Configuration">>

\* A HistoryStep whose stepIndex counts from 1.
HistoryStepFromOne(pg, k, description, st) ==
    CASE pg = "voxel" -> [stepIndex |-> k + 1, commandDescription |-> description, voxelState |-> st]
      [] pg = "die" -> [stepIndex |-> k + 1, commandDescription |-> description, resultState |-> st]
      [] OTHER -> [stepIndex |-> k + 1, commandDescription |-> description, gridState |-> st]

\* One HistoryStep; the snapshot field is voxelState, resultState or gridState.
HistoryStep(pg, k, description, st) ==
    CASE pg = "voxel" -> [stepIndex |-> k, commandDescription |-> description, voxelState |-> st]
      [] pg = "die" -> [stepIndex |-> k, commandDescription |-> description, resultState |-> st]
      [] OTHER -> [stepIndex |-> k, commandDescription |-> description, gridState |-> st]

Snapshot(pg, h) ==
    CASE pg = "voxel" -> h.voxelState
      [] pg = "die" -> h.resultState
      [] OTHER -> h.gridState

\* A loop that pushes the snapshot of `current` before applying the command.
RECURSIVE forEachCommandStale(_, _, _, _, _)
forEachCommandStale(pg, current, cmds, k, hist) ==
    IF k > Len(cmds) THEN [current |-> current, hist |-> hist]
    ELSE forEachCommandStale(pg, ApplyValue(pg, current, cmds[k]), cmds, k + 1,
                             Append(hist, HistoryStep(pg, k, cmds[k].description, current)))

\* cmds.forEach((cmd, idx) => { current = apply(current, cmd); hist.push(...) }),
\* from the k-th command on (k = idx + 1).
RECURSIVE forEachCommand(_, _, _, _, _)
forEachCommand(pg, current, cmds, k, hist) ==
    IF k > Len(cmds) THEN [current |-> current, hist |-> hist]
    ELSE LET next == ApplyValue(pg, current, cmds[k])
         IN  forEachCommand(pg, next, cmds, k + 1,
                            Append(hist, HistoryStep(pg, k, cmds[k].description, next)))

\* The replay of startGame: the start entry, then the loop.
replay(pg, init, cmds) ==
    forEachCommand(pg, init, cmds, 1, <<HistoryStep(pg, 0, StartDescription(pg), init)>>)

\* --- the inputs a session is run on
\* A session draws its commands among these: one laser of each type, swaps
\* and row sets at index 0, swaps with the cell (2,2), three of the six die
\* moves.
SessionLasers ==
    {VoxelLaserCmd("LASER_X", 0, 1), VoxelLaserCmd("LASER_Y", 0, 0), VoxelLaserCmd("LASER_Z", 0, 0)}
SessionTargets == {0}
SwapPartners == {2}
SessionDieTypes == {"ROLL_FORWARD", "ROLL_LEFT", "ROTATE_CW"}

SessionCommands(pg) ==
    CASE pg = "voxel" ->
            {VoxelRotateCmd} \cup SessionLasers
      [] pg = "die" -> {DieCmd(t) : t \in SessionDieTypes}
      [] OTHER ->
            {GridRotateCmd}
            \cup {c \in GridSwapCommands(pg) :
                    /\ c.r1 \in SessionTargets /\ c.c1 \in SessionTargets
                    /\ c.r2 \in SwapPartners /\ c.c2 \in SwapPartners}
            \cup {GridSetRowCmd(r, 0) : r \in SessionTargets}

SessionCommandLists(pg) == [1..NumCommands -> SessionCommands(pg)]

\* generateGrid() of the page: the ordered grid, or a random one.
SessionGrids(pg) ==
    IF pg = "grid_v1" THEN {OrderedGrid}
    ELSE {LinearGrid(a, 0) : a \in {1, 3}}

SessionInitials(pg) ==
    CASE pg = "voxel" -> {createCube}
      [] pg = "die" -> {INITIAL_DIE}
      [] OTHER -> SessionGrids(pg)

\* The cells the user types into and what is typed.
\* (z, y, x) of the cells typed into
VoxelInputCells == {<<0, 0, 0>>, <<1, 0, 2>>}
GridInputCells == {<<0, 0>>, <<2, 2>>}
VoxelTyped == {<< >>, <<"2">>, <<"1", "9">>, <<"a">>, <<"1", "2", "3">>}
\* the grid inputs carry maxLength={2}
GridTyped == {<< >>, <<"5">>, <<"1", "2">>, <<"a", "b">>, <<"7", "x">>}
\* an <input type="number"> reports '' or the number typed, which need not
\* be whole
DieTyped == {<< >>, <<"1">>, <<"6">>, <<"2", ".", "5">>}

\* --- React: render, effect cleanup, effect
Deps(ph, idx, show, cmds) == <<ph, idx, show, Len(cmds)>>

\* return () => clearTimeout(timer): only the timer held in `timer` is cleared.
cleanup(tms) == {t \in tms : ~t.tracked}

\* An effect whose running branch has no else: past the last command it
\* schedules nothing and sets no phase.
phaseEffectNoQuestion(pg, ph, idx, show, cmds, tms) ==
    LET deps == Deps(ph, idx, show, cmds)
        Timer(fn, ms, tracked) == [fn |-> fn, ms |-> ms, tracked |-> tracked, deps |-> deps]
    IN  CASE ph = MemorizePhase(pg) ->
                [phase |-> ph, timers |-> tms \cup {Timer("toRunning", MemorizeMs(pg), TRUE)}]
          [] ph = RunningPhase(pg) /\ idx < Len(cmds) ->
                IF ~show
                THEN [phase |-> ph, timers |-> tms \cup {Timer("showText", GapMs(pg), TRUE)}]
                ELSE [phase |-> ph, timers |-> tms \cup {Timer("hideText", ShowMs(pg), TRUE)}]
          [] OTHER -> [phase |-> ph, timers |-> tms]

\* The body of the phase effect. A setPhase inside it renders again: the
\* dependencies changed, the cleanup finds `timer` unset and the effect of the
\* question phase schedules nothing.
phaseEffect(pg, ph, idx, show, cmds, tms) ==
    LET deps == Deps(ph, idx, show, cmds)
        Timer(fn, ms, tracked) == [fn |-> fn, ms |-> ms, tracked |-> tracked, deps |-> deps]
    IN  CASE ph = MemorizePhase(pg) ->
                [phase |-> ph, timers |-> tms \cup {Timer("toRunning", MemorizeMs(pg), TRUE)}]
          [] ph = RunningPhase(pg) ->
                IF idx < Len(cmds)
                THEN IF ~show
                     THEN [phase |-> ph, timers |-> tms \cup {Timer("showText", GapMs(pg), TRUE)}]
                     ELSE [phase |-> ph, timers |-> tms \cup {Timer("hideText", ShowMs(pg), TRUE)}]
                ELSE IF pg = "part_000"
                     THEN [phase |-> ph, timers |-> tms \cup {Timer("toQuestion", 0, FALSE)}]
                     ELSE [phase |-> QuestionPhase(pg), timers |-> tms]
          [] OTHER -> [phase |-> ph, timers |-> tms]

\* The render after a batch of state updates: the effect runs again only when
\* one of its dependencies changed, after the cleanup of its last run.
render(pg, oldDeps, ph, idx, show, cmds, tms) ==
    IF ~HasEffect(pg) \/ Deps(ph, idx, show, cmds) = oldDeps
    THEN [phase |-> ph, timers |-> tms]
    ELSE phaseEffect(pg, ph, idx, show, cmds, cleanup(tms))

CurrentDeps == Deps(phase, currentCommandIdx, showCommandText, commandList)

\* The updates of one handler or callback, then the render that follows them.
Commit(ph, idx, show, cmds, tms) ==
    LET res == render(page, CurrentDeps, ph, idx, show, cmds, tms)
    IN  /\ phase' = res.phase
        /\ timers' = res.timers
        /\ currentCommandIdx' = idx
        /\ showCommandText' = show
        /\ commandList' = cmds

\* The running screen renders commandList[currentCommandIdx].description.
TextVisible(pg, ph, idx, show, cmds) ==
    /\ HasEffect(pg)
    /\ ph = RunningPhase(pg)
    /\ show
    /\ (pg \in {"voxel", "die"} => idx < Len(cmds))

\* What the screen has displayed after the render of a commit: the text of a
\* command is displayed anew when it was not on the screen before the commit.
Display(base) ==
    shown' =
        IF /\ TextVisible(page, phase', currentCommandIdx', showCommandText', commandList')
           /\ ~(/\ TextVisible(page, phase, currentCommandIdx, showCommandText, commandList)
                /\ currentCommandIdx' = currentCommandIdx)
        THEN Append(base, currentCommandIdx')
        ELSE base

\* getRandomFaceToCheck() of the die page; the other pages have no target face.
FacesToCheck(pg) == IF pg = "die" THEN Faces ELSE {"top"}

\* --- the handlers
\* startGame, for the initial configurations and the command lists its
\* generators can return.
StartGameWith(initials, commandLists) ==
    /\ phase = "idle"
    /\ \E init \in initials, cmds \in commandLists,
          face \in FacesToCheck(page) :
        LET run == replay(page, init, cmds)
        IN  /\ finalState' = run.current
            /\ history' = IF HasHistory(page) THEN run.hist ELSE history
            /\ originalGrid' = IF page \in {"grid_v2", "part_000"} THEN init ELSE originalGrid
            /\ targetFace' = IF page = "die" THEN face ELSE targetFace
            /\ userInput' = CASE page \in GridPages ->
                                    Array3(Array3(<< >>, << >>, << >>),
                                           Array3(<< >>, << >>, << >>),
                                           Array3(<< >>, << >>, << >>))
                              [] OTHER -> << >>
            /\ Commit(IF page = "grid_v1" THEN "solving" ELSE MemorizePhase(page),
                      currentCommandIdx, showCommandText, cmds, timers)
    /\ started' = TRUE
    /\ submits' = 0
    /\ Display(<< >>)
    /\ idxAtRun' = -1
    /\ UNCHANGED <<page, engineVars, genOut>>

StartGame == StartGameWith(SessionInitials(page), SessionCommandLists(page))

\* A memorize callback that resets currentCommandIdx only when it is negative,
\* as after the mount.
callbackKeepsIndex(pg, fn, ph, idx, show) ==
    CASE fn = "toRunning" ->
            [phase |-> RunningPhase(pg), idx |-> IF idx < 0 THEN 0 ELSE idx, show |-> FALSE,
             spawn |-> {}]
      [] fn = "showText" -> [phase |-> ph, idx |-> idx, show |-> TRUE, spawn |-> {}]
      [] fn = "hideText" ->
            IF pg = "part_000"
            THEN [phase |-> ph, idx |-> idx, show |-> FALSE, spawn |-> {"nextIdx"}]
            ELSE [phase |-> ph, idx |-> idx + 1, show |-> FALSE, spawn |-> {}]
      [] fn = "nextIdx" -> [phase |-> ph, idx |-> idx + 1, show |-> show, spawn |-> {}]
      [] fn = "toQuestion" -> [phase |-> "reconstruction", idx |-> idx, show |-> show, spawn |-> {}]

\* The callbacks the phase effect passes to setTimeout: the state updates
\* each makes, and the callbacks it schedules itself with setTimeout(..., 0).
callback(pg, fn, ph, idx, show) ==
    CASE fn = "toRunning" -> [phase |-> RunningPhase(pg), idx |-> 0, show |-> FALSE, spawn |-> {}]
      [] fn = "showText" -> [phase |-> ph, idx |-> idx, show |-> TRUE, spawn |-> {}]
      [] fn = "hideText" ->
            IF pg = "part_000"
            THEN [phase |-> ph, idx |-> idx, show |-> FALSE, spawn |-> {"nextIdx"}]
            ELSE [phase |-> ph, idx |-> idx + 1, show |-> FALSE, spawn |-> {}]
      [] fn = "nextIdx" -> [phase |-> ph, idx |-> idx + 1, show |-> show, spawn |-> {}]
      [] fn = "toQuestion" -> [phase |-> "reconstruction", idx |-> idx, show |-> show, spawn |-> {}]

\* The timer due next runs its callback; the others have waited as long.
TimerFires ==
    \E t \in timers :
        /\ \A u \in timers : t.ms <= u.ms
        /\ LET rest == {[u EXCEPT !.ms = @ - t.ms] : u \in timers \ {t}}
               res == callback(page, t.fn, phase, currentCommandIdx, showCommandText)
               spawned == {[fn |-> f, ms |-> 0, tracked |-> FALSE, deps |-> t.deps] : f \in res.spawn}
           IN  Commit(res.phase, res.idx, res.show, commandList, rest \cup spawned)
        /\ Display(shown)
        /\ idxAtRun' = IF t.fn = "toRunning" THEN currentCommandIdx ELSE idxAtRun
        /\ UNCHANGED <<page, engineVars, genOut, history, finalState, originalGrid,
                       userInput, targetFace, started, submits>>

\* handleCellInput of the voxel page
HandleCellInput ==
    /\ page = "voxel"
    /\ phase = "question"
    /\ \E q \in VoxelInputCells, val \in VoxelTyped :
        userInput' =
            IF Len(val) > 2 THEN userInput
            ELSE LET key == CellKey(q[1], q[2], q[3])
                 IN  [k \in DOMAIN userInput \cup {key} |-> IF k = key THEN val ELSE userInput[k]]
    /\ UNCHANGED <<page, engineVars, genOut, phase, commandList, history, finalState,
                   originalGrid, currentCommandIdx, showCommandText, targetFace, timers,
                   started, submits, shown, idxAtRun>>

\* handleInputChange(r, c, value): the user grid it sets, or leaves.
handleInputChange(userGrid, r, c, value) ==
    IF value = << >> \/ IsDigits(value)
    THEN [userGrid EXCEPT ![r][c] = value]
    ELSE userGrid

\* A handler that writes the typed number into the expected grid as well.
HandleInputChangeSharedRows ==
    /\ page \in GridPages
    /\ phase = QuestionPhase(page)
    /\ \E q \in GridInputCells, value \in GridTyped :
        /\ userInput' = handleInputChange(userInput, q[1], q[2], value)
        /\ finalState' = IF IsDigits(value)
                          THEN [finalState EXCEPT ![q[1]][q[2]] = parseInt(value)]
                          ELSE finalState
    /\ UNCHANGED <<page, engineVars, genOut, phase, commandList, history,
                   originalGrid, currentCommandIdx, showCommandText, targetFace, timers,
                   started, submits, shown, idxAtRun>>

\* handleInputChange of the grid pages
HandleInputChange ==
    /\ page \in GridPages
    /\ phase = QuestionPhase(page)
    /\ \E q \in GridInputCells, value \in GridTyped :
        userInput' = handleInputChange(userInput, q[1], q[2], value)
    /\ UNCHANGED <<page, engineVars, genOut, phase, commandList, history, finalState,
                   originalGrid, currentCommandIdx, showCommandText, targetFace, timers,
                   started, submits, shown, idxAtRun>>

\* onChange of the die page: setUserAnswer(e.target.value)
SetUserAnswer ==
    /\ page = "die"
    /\ phase = "question"
    /\ \E value \in DieTyped : userInput' = value
    /\ UNCHANGED <<page, engineVars, genOut, phase, commandList, history, finalState,
                   originalGrid, currentCommandIdx, showCommandText, targetFace, timers,
                   started, submits, shown, idxAtRun>>

\* handleSubmit / checkResult
HandleSubmit ==
    /\ phase = QuestionPhase(page)
    /\ Commit("result", currentCommandIdx, showCommandText, commandList, timers)
    /\ submits' = submits + 1
    /\ Display(shown)
    /\ UNCHANGED <<page, engineVars, genOut, history, finalState, originalGrid,
                   userInput, targetFace, started, idxAtRun>>

\* A retry button that the question screen shows as well.
RetryFromQuestion ==
    /\ phase \in {"result", QuestionPhase(page)}
    /\ Commit("idle", currentCommandIdx, showCommandText, commandList, timers)
    /\ Display(shown)
    /\ idxAtRun' = -1
    /\ UNCHANGED <<page, engineVars, genOut, history, finalState, originalGrid,
                   userInput, targetFace, started, submits>>

\* onClick={() => setPhase('idle')} of the result screen
Retry ==
    /\ phase = "result"
    /\ Commit("idle", currentCommandIdx, showCommandText, commandList, timers)
    /\ Display(shown)
    /\ idxAtRun' = -1
    /\ UNCHANGED <<page, engineVars, genOut, history, finalState, originalGrid,
                   userInput, targetFace, started, submits>>

EngineIdle ==
    /\ initial = << >>
    /\ state = << >>
    /\ before = << >>
    /\ inputAfter = << >>
    /\ cmd = [type |-> "NONE"]
    /\ outcome = "none"
    /\ steps = 0
    /\ runBase = << >>
    /\ runLen = 0
    /\ prevCmd = [type |-> "NONE"]
    /\ before2 = << >>

InitSession ==
    /\ page \in Pages
    /\ EngineIdle
    /\ SessionMounted
    /\ genOut = << >>

NextSession ==
    \/ StartGame
    \/ TimerFires
    \/ HandleCellInput
    \/ HandleInputChange
    \/ SetUserAnswer
    \/ HandleSubmit
    \/ Retry

SpecSession == InitSession /\ [][NextSession]_vars

\* --- a session the user starts and then leaves alone
\* A pending setTimeout callback is run by the event loop once its delay has
\* passed: the timer due next is not left waiting for ever.
NextTimers ==
    \/ StartGame
    \/ TimerFires

SpecTimers == InitSession /\ [][NextTimers]_vars /\ WF_vars(TimerFires)

\* --- a grid session answered in full
\* The commands of such a session: the swap of the corners (0,0) and (2,2)
\* and the zeroing of row 1.
ScoreCommands(pg) ==
    {c \in SessionCommands(pg) : c.type \in {"SWAP", "SET_ROW"}}

ScoreCommandLists(pg) == [1..NumCommands -> ScoreCommands(pg)]

\* What the user types into cell q, whose expected value is given: the
\* expected number; in the cells of GridInputCells also the next number, the
\* expected number after a 0, and nothing.
ScoreTyped(q, expected) ==
    {NumToString(expected)}
    \cup (IF q \in GridInputCells
          THEN {NumToString(expected + 1), <<"0">> \o NumToString(expected), << >>}
          ELSE {})

InitScore ==
    /\ page \in GridPages
    /\ EngineIdle
    /\ SessionMounted
    /\ genOut = << >>

StartScored == StartGameWith(SessionInitials(page), ScoreCommandLists(page))

\* handleInputChange, on any cell of the grid
AnswerCell ==
    /\ page \in GridPages
    /\ phase = QuestionPhase(page)
    /\ \E q \in Idx \X Idx :
        \E value \in ScoreTyped(q, finalState[q[1]][q[2]]) :
            userInput' = handleInputChange(userInput, q[1], q[2], value)
    /\ UNCHANGED <<page, engineVars, genOut, phase, commandList, history, finalState,
                   originalGrid, currentCommandIdx, showCommandText, targetFace, timers,
                   started, submits, shown, idxAtRun>>

NextScore ==
    \/ StartScored
    \/ TimerFires
    \/ AnswerCell
    \/ HandleSubmit

SpecScore == InitScore /\ [][NextScore]_vars

\* ======================================================== GENERATORS
RandomDraws == 0..(RandDen - 1)

\* Math.floor(Math.random() * n) for the draw k / RandDen
floorRandom(k, n) == (k * n) \div RandDen

\* generateGrid() of grid_v2 and part_000: Array.from over the rows, then over
\* the cells of each row, one draw per cell in that order; of grid_v1: the
\* literal 1..9.
generateGrid(pg, draws) ==
    IF pg = "grid_v1" THEN OrderedGrid
    ELSE LET cell(k) == floorRandom(draws[k], 9) + 1
         IN  Array3(Array3(cell(0), cell(1), cell(2)),
                    Array3(cell(3), cell(4), cell(5)),
                    Array3(cell(6), cell(7), cell(8)))

\* The type one iteration of generateRandomCommands picks for the draw
\* t / TypeDen: grid_v1 compares rand with 0.5 and 0.8, the later revisions
\* index types[] with Math.floor(rand * 3).
commandType(pg, t) ==
    IF pg = "grid_v1"
    THEN CASE 10 * t < 5 * TypeDen -> "ROTATE_CW"
           [] 10 * t < 8 * TypeDen -> "SWAP"
           [] OTHER -> "SET_ROW"
    ELSE CASE (t * 3) \div TypeDen = 0 -> "ROTATE_CW"
           [] (t * 3) \div TypeDen = 1 -> "SWAP"
           [] OTHER -> "SET_ROW"

\* if (r1 === r2 && c1 === c2) r2 = ...: one redraw, not a loop.
resampleOnce(r1, c1, r2, c2, draws) ==
    IF r1 = r2 /\ c1 = c2 /\ draws # << >>
    THEN [r2 |-> floorRandom(Head(draws), 3), ended |-> TRUE, left |-> Tail(draws)]
    ELSE [r2 |-> r2, ended |-> TRUE, left |-> draws]

\* while (r1 === r2 && c1 === c2) r2 = Math.floor(Math.random() * 3), on the
\* draws the loop is given. ended: the loop test failed; left: draws not used.
RECURSIVE resampleLoop(_, _, _, _, _)
resampleLoop(r1, c1, r2, c2, draws) ==
    IF r1 = r2 /\ c1 = c2
    THEN IF draws = << >>
         THEN [r2 |-> r2, ended |-> FALSE, left |-> << >>]
         ELSE resampleLoop(r1, c1, floorRandom(Head(draws), 3), c2, Tail(draws))
    ELSE [r2 |-> r2, ended |-> TRUE, left |-> draws]

InitGen ==
    /\ page \in Pages
    /\ EngineIdle
    /\ SessionMounted
    /\ genOut = << >>

\* One call of generateGrid(), as startGame makes it.
GenerateGrid ==
    /\ page \in GridPages
    /\ genOut = << >>
    /\ \E draws \in [0..8 -> RandomDraws] :
        genOut' = [kind |-> "grid", grid |-> generateGrid(page, draws)]
    /\ UNCHANGED <<page, engineVars, sessionVars>>

\* One iteration of the for loop of generateRandomCommands on the draws t
\* (rand), d (r1, c1, r2, c2, or rowIdx) and the redraws of the resampling
\* loop. cmd: the command pushed; complete: the iteration ended having used
\* exactly these draws.
gridIteration(pg, t, d, redraws) ==
    LET type == commandType(pg, t)
        r1 == floorRandom(d[1], 3)
        c1 == floorRandom(d[2], 3)
        c2 == floorRandom(d[4], 3)
        loop == resampleLoop(r1, c1, floorRandom(d[3], 3), c2, redraws)
    IN  CASE type = "ROTATE_CW" ->
                [cmd |-> GridRotateCmd, complete |-> redraws = << >>]
          [] type = "SWAP" ->
                [cmd |-> GridSwapCmd(pg, r1, c1, loop.r2, c2),
                 complete |-> loop.ended /\ loop.left = << >>]
          [] OTHER ->
                [cmd |-> GridSetRowCmd(floorRandom(d[1], 3), 0), complete |-> redraws = << >>]

\* One iteration of the for loop of generateCommands of the voxel page on the
\* draws t (rand), a (axisRand) and d (the two indices).
voxelIteration(t, a, d) ==
    IF 100 * t < 35 * TypeDen
    THEN VoxelRotateCmd
    ELSE CASE 100 * a < 33 * TypeDen ->
                VoxelLaserCmd("LASER_Z", floorRandom(d[1], 3), floorRandom(d[2], 3))
           [] 100 * a < 66 * TypeDen ->
                VoxelLaserCmd("LASER_X", floorRandom(d[1], 3), floorRandom(d[2], 3))
           [] OTHER ->
                VoxelLaserCmd("LASER_Y", floorRandom(d[1], 3), floorRandom(d[2], 3))

\* The callback of Array.from of generateCommands of the die page on the draw
\* t: types[Math.floor(Math.random() * types.length)] and its description.
dieIteration(t) == DieCmd(types[((t * Len(types)) \div TypeDen) + 1])

TypeDraws == 0..(TypeDen - 1)

\* The index draws of a whole call of generateRandomCommands: the least and
\* the greatest value of Math.random(). (GenerateCommand runs one iteration
\* on every draw.)
CallDraws == {0, RandDen - 1}

\* The commands one iteration of generateRandomCommands can push, over the
\* draws a whole call is run on.
PushedGrid(pg) ==
    UNION {{gridIteration(pg, t, d, redraws).cmd :
                <<t, d, redraws>> \in
                    {q \in TypeDraws \X [1..4 -> CallDraws] \X [1..n -> CallDraws] :
                        gridIteration(pg, q[1], q[2], q[3]).complete}} :
            n \in 0..MaxResample}

\* The commands one iteration of the generator of each page can push.
Pushed ==
    ("voxel" :> {voxelIteration(t, a, d) :
                    t \in TypeDraws, a \in TypeDraws, d \in [1..2 -> RandomDraws]})
    @@ ("die" :> {dieIteration(t) : t \in TypeDraws})
    @@ ("grid_v1" :> PushedGrid("grid_v1"))
    @@ ("grid_v2" :> PushedGrid("grid_v2"))
    @@ ("part_000" :> PushedGrid("part_000"))

\* for (let i = 1; ...): the loop makes one iteration less.
RECURSIVE generateLoopFromOne(_, _, _, _)
generateLoopFromOne(i, count, pushes, commands) ==
    IF i + 1 < count
    THEN generateLoopFromOne(i + 1, count, pushes, Append(commands, pushes[i + 1]))
    ELSE commands

\* for (let i = 0; i < count; i++) { ... commands.push(...) }, from iteration i
\* on; pushes[k] is the command the draws of the k-th iteration make it push.
\* Array.from({ length: count }, ...) of the die page builds the same list.
RECURSIVE generateLoop(_, _, _, _)
generateLoop(i, count, pushes, commands) ==
    IF i < count
    THEN generateLoop(i + 1, count, pushes, Append(commands, pushes[i + 1]))
    ELSE commands

\* generateCommands(count) / generateRandomCommands(count)
generateCommands(count, pushes) == generateLoop(0, count, pushes, << >>)

\* One iteration of the for loop of generateRandomCommands, with the number
\* of redraws its resampling loop made.
GenerateCommand ==
    /\ page \in GridPages
    /\ genOut = << >>
    /\ \E t \in TypeDraws, d \in [1..4 -> RandomDraws], n \in 0..MaxResample :
        \E redraws \in [1..n -> RandomDraws] :
            LET it == gridIteration(page, t, d, redraws)
            IN  /\ it.complete
                /\ genOut' = [kind |-> "command", cmd |-> it.cmd, redraws |-> n]
    /\ UNCHANGED <<page, engineVars, sessionVars>>

\* One call of the command generator of the page, with its count.
CallGenerator ==
    /\ genOut = << >>
    /\ \E count \in 0..MaxCount :
        \E pushes \in [1..count -> Pushed[page]] :
            genOut' = [kind |-> "commands", count |-> count,
                       commands |-> generateCommands(count, pushes)]
    /\ UNCHANGED <<page, engineVars, sessionVars>>

NextGen == GenerateGrid \/ GenerateCommand \/ CallGenerator

SpecGen == InitGen /\ [][NextGen]_vars

\* ===================================================== ENGINE ACTIONS
WellFormed(pg) ==
    CASE pg = "voxel" -> VoxelCommands
      [] pg = "die" -> DieCommands
      [] OTHER -> GridEngineCommands(pg)

Malformed(pg) ==
    CASE pg = "voxel" -> VoxelMalformed
      [] pg = "die" -> {}
      [] OTHER -> GridMalformed(pg)

StartStates(pg) ==
    CASE pg = "voxel" -> {createCube}
      [] pg = "die" -> {INITIAL_DIE}
      [] OTHER -> GridInputs

StepBound(pg) == IF pg \in GridPages THEN MaxGridSteps ELSE MaxSteps

NoCmd == [type |-> "NONE"]

Init ==
    /\ page \in Pages
    /\ initial \in StartStates(page)
    /\ state = initial
    /\ before = initial
    /\ inputAfter = initial
    /\ cmd = NoCmd
    /\ outcome = "none"
    /\ steps = 0
    /\ runBase = << >>
    /\ runLen = 0
    /\ prevCmd = [type |-> "NONE"]
    /\ before2 = << >>
    /\ SessionMounted
    /\ genOut = << >>

\* The rotation whose runs are followed: ROTATE_Y of the cube, ROTATE_CW of
\* the grid and of the die.
RotateType(pg) ==
    CASE pg = "voxel" -> "ROTATE_Y"
      [] pg \in GridPages -> "ROTATE_CW"
      [] OTHER -> "ROTATE_CW"

\* One call of the page's apply function on `current`, as in the startGame loop.
\* The die has 24 poses, so its runs need no bound; steps stops counting there.
\* A run of rotations may go on past the step bound, up to MaxRun of them; on
\* the die a longer run is followed as a new run.
Call(c) ==
    /\ \/ page = "die"
       \/ steps < StepBound(page)
       \/ c.type = RotateType(page) /\ runLen \in 1..(MaxRun - 1)
    /\ before' = state
    /\ cmd' = c
    /\ steps' = IF steps < StepBound(page) THEN steps + 1 ELSE steps
    /\ runLen' = CASE c.type # RotateType(page) -> 0
                    [] runLen < MaxRun -> runLen + 1
                    [] OTHER -> 1
    /\ runBase' = CASE c.type # RotateType(page) -> << >>
                     [] runLen \in {0, MaxRun} -> state
                     [] OTHER -> runBase
    /\ prevCmd' = IF page = "die" THEN cmd ELSE prevCmd
    /\ before2' = IF page = "die" THEN before ELSE before2
    /\ UNCHANGED <<page, initial, sessionVars, genOut>>
    /\ CASE page = "voxel" ->
              /\ state' = applyCommand(state, c)
              /\ inputAfter' = applyCommandInputAfter(state, c)
              /\ outcome' = "ok"
         [] page = "die" ->
              /\ state' = applyDieCommand(state, c.type)
              /\ inputAfter' = applyDieCommandInputAfter(state, c.type)
              /\ outcome' = "ok"
         [] OTHER ->
              /\ inputAfter' = applyGridCommandInputAfter(page, state, c)
              /\ IF applyGridCommandThrows(page, state, c)
                    THEN state' = state /\ outcome' = "TypeError"
                    ELSE state' = applyGridCommand(page, state, c) /\ outcome' = "ok"

Apply == \E c \in WellFormed(page) : Call(c)

ApplyMalformed == \E c \in Malformed(page) : Call(c)

ApplyUnknownType ==
    /\ page \in GridPages
    /\ \E c \in GridUnknownType : Call(c)

Next == Apply \/ ApplyMalformed \/ ApplyUnknownType

Spec == Init /\ [][Next]_vars

\* ============================================================ CLAIMS
SameCoordinate(v, w) == v.x = w.x /\ v.y = w.y /\ v.z = w.z

\* C1: ROTATE_Y moves every cell of the cube, present or destroyed, from
\* (x, y, z) to (2 - z, y, x).
C1_RotateMovesEveryCell ==
    (page = "voxel" /\ cmd.type = "ROTATE_Y") =>
        \A i \in 1..Len(before) :
            /\ state[i].x = 2 - before[i].z
            /\ state[i].y = before[i].y
            /\ state[i].z = before[i].x

\* C3: a call of an apply function with a well-formed command leaves its
\* input as it was: the input read after the call equals the copy captured
\* before it.
C3_InputNotMutated ==
    (outcome # "none" /\ cmd \in WellFormed(page)) => inputAfter = before

C3_Witness ==
    /\ page = "voxel"
    /\ cmd.type = "LASER_Z"
    /\ state # before
    /\ inputAfter = before

\* C4: in every cube reachable from createCube no two present cells share a
\* coordinate triple.
C4_NoSharedCoordinate ==
    (page = "voxel" /\ initial = createCube) =>
        \A i \in 1..Len(state) : \A j \in 1..Len(state) :
            (i # j /\ state[i].active /\ state[j].active) => ~SameCoordinate(state[i], state[j])

C4_Witness ==
    /\ page = "voxel"
    /\ cmd.type = "ROTATE_Y"
    /\ \E i \in 1..Len(before) : ~before[i].active
    /\ \E i \in 1..Len(state) : state[i].active /\ ~SameCoordinate(state[i], before[i])

\* C6: from the canonical die, after any sequence of roll and spin commands
\* the opposite faces sum to 7.
C6_OppositeFacesSumSeven ==
    (page = "die" /\ initial = INITIAL_DIE) =>
        /\ state.top + state.bottom = 7
        /\ state.front + state.back = 7
        /\ state.left + state.right = 7

C6_Witness ==
    /\ page = "die"
    /\ initial = INITIAL_DIE
    /\ cmd.type = "ROLL_LEFT"
    /\ state.top = 2
    /\ state.front = 3

\* C8: applying a command whose required parameters are missing signals an
\* error.
C8_MissingParamsSignalError ==
    cmd \in Malformed(page) => outcome = "TypeError"

\* --- claims about a session
SessionInitial ==
    CASE page = "voxel" -> createCube
      [] page = "die" -> INITIAL_DIE
      [] page = "grid_v1" -> OrderedGrid
      [] OTHER -> originalGrid

\* C2: the history of a started game has one entry more than the command
\* list, entry 0 holds the initial configuration and entry i+1 holds the page's
\* apply function of entry i and command i.
C2_HistoryReplaysCommands ==
    (HasHistory(page) /\ commandList # << >>) =>
        /\ Len(history) = Len(commandList) + 1
        /\ Snapshot(page, history[1]) = SessionInitial
        /\ \A i \in 1..Len(commandList) :
            Snapshot(page, history[i + 1])
                = ApplyValue(page, Snapshot(page, history[i]), commandList[i])

C2_Witness ==
    /\ page = "voxel"
    /\ phase = "result"
    /\ Len(history) = NumCommands + 1
    /\ \A i \in 1..NumCommands :
        Snapshot(page, history[i + 1]) # Snapshot(page, history[i])

TypedAt(z, y, x) ==
    IF CellKey(z, y, x) \in DOMAIN userInput THEN userInput[CellKey(z, y, x)] ELSE << >>

\* C5: the coordinate of every destroyed cell of the final cube scores
\* correct exactly when the user input for it is the empty string.
C5_DestroyedCorrectIffEmpty ==
    (page = "voxel" /\ commandList # << >>) =>
        \A i \in 1..Len(finalState) :
            LET v == finalState[i]
            IN  ~v.active =>
                    (cellCorrect(finalState, userInput, v.z, v.y, v.x)
                        <=> TypedAt(v.z, v.y, v.x) = << >>)

\* C7: every pending timer was scheduled by the effect run of the current
\* phase step (the current values of the effect's dependencies), so no
\* callback of an earlier step or session is left to run.
C7_NoStaleTimer == \A t \in timers : t.deps = CurrentDeps

ShortNumericOrEmpty(str) == str = << >> \/ (IsDigits(str) /\ Len(str) <= 2)

\* C10: no value that is non-numeric or longer than two digits is ever stored
\* in the user answer of the voxel page or of a grid page.
C10_OnlyShortNumericStored ==
    /\ page = "voxel" => \A k \in DOMAIN userInput : ShortNumericOrEmpty(userInput[k])
    /\ (page \in GridPages /\ userInput # << >>) =>
            \A r \in Idx, c \in Idx : ShortNumericOrEmpty(userInput[r][c])

\* --- claims about the generators
\* C9: the grid generateGrid returns for the random start holds each of 1..9
\* exactly once.
C9_RandomGridIsPermutation ==
    (page \in {"grid_v2", "part_000"} /\ genOut # << >> /\ genOut.kind = "grid") =>
        \A v \in 1..9 :
            Cardinality({q \in Idx \X Idx : genOut.grid[q[1]][q[2]] = v}) = 1

\* --- claims about the commands, one call or one run of calls
\* C11: four ROTATE_Y in a row return every cell of the cube, present or
\* destroyed, to the coordinates it had before the four rotations.
C11_FourRotationsReturn ==
    (page = "voxel" /\ runLen = 4) =>
        \A i \in 1..Len(runBase) : SameCoordinate(state[i], runBase[i])

C11_Witness ==
    /\ page = "voxel"
    /\ runLen = 4
    /\ \E i \in 1..Len(state) : ~state[i].active
    /\ \E i \in 1..Len(state) : ~SameCoordinate(state[i], before[i])

\* The line of a laser command: the cells it makes not-present.
OnLine(v, c) ==
    CASE c.type = "LASER_Z" -> v.x = c.targetIndex1 /\ v.y = c.targetIndex2
      [] c.type = "LASER_X" -> v.y = c.targetIndex1 /\ v.z = c.targetIndex2
      [] c.type = "LASER_Y" -> v.x = c.targetIndex1 /\ v.z = c.targetIndex2
      [] OTHER -> FALSE

\* C12: a laser command makes not-present exactly the cells on its line; the
\* coordinates of all cells and the present flags of the other cells stay.
C12_LaserClearsItsLine ==
    (page = "voxel" /\ cmd \in VoxelCommands /\ cmd.type \in LaserTypes) =>
        /\ Len(state) = Len(before)
        /\ \A i \in 1..Len(before) :
            /\ SameCoordinate(state[i], before[i])
            /\ state[i].active = (before[i].active /\ ~OnLine(before[i], cmd))

C12_Witness ==
    /\ page = "voxel"
    /\ cmd.type = "LASER_X"
    /\ \E i \in 1..Len(before) : ~before[i].active
    /\ Cardinality({i \in 1..Len(before) : before[i].active /\ ~state[i].active}) = 3

\* C13: after any sequence of commands the cube has 27 cells and every cell
\* has the id and val createCube gave it.
C13_IdentitiesKept ==
    page = "voxel" =>
        /\ Len(state) = 27
        /\ \A i \in 1..Len(state) :
            state[i].id = createCube[i].id /\ state[i].val = createCube[i].val

C13_Witness ==
    /\ page = "voxel"
    /\ cmd.type = "LASER_Y"
    /\ before # createCube
    /\ state # before
    /\ \E i \in 1..Len(state) : ~SameCoordinate(state[i], createCube[i])

\* C14: ROTATE_CW of the grid moves the value at (r, c) to (c, 2 - r).
C14_RotateClockwise ==
    (page \in GridPages /\ cmd.type = "ROTATE_CW") =>
        \A r \in Idx, c \in Idx : state[c][2 - r] = before[r][c]

C14_Witness ==
    /\ page = "part_000"
    /\ cmd.type = "ROTATE_CW"
    /\ before[0][0] # before[0][2]
    /\ state[0][2] = before[0][0]
    /\ state # before

\* C15: four ROTATE_CW in a row return the grid they started from.
C15_FourGridRotationsReturn ==
    (page \in GridPages /\ runLen = 4) => state = runBase

C15_Witness ==
    /\ page = "grid_v1"
    /\ runLen = 4
    /\ state = runBase
    /\ before # state
    /\ Cardinality({state[q[1]][q[2]] : q \in Idx \X Idx}) = 9

\* C16: the grid engine has a mirror-horizontal command; it reverses each
\* row of the grid.
C16_MirrorReversesRows ==
    (page \in GridPages /\ cmd.type = "MIRROR_H") =>
        \A r \in Idx, c \in Idx : state[r][c] = before[r][2 - c]

\* C17: SWAP exchanges the values of its two cells and leaves the other cells
\* as they were; with equal coordinates the grid is unchanged.
C17_SwapExchangesTwoCells ==
    (page \in GridPages /\ cmd.type = "SWAP" /\ cmd \in WellFormed(page)) =>
        /\ \A r \in Idx, c \in Idx :
            state[r][c] = CASE r = cmd.r1 /\ c = cmd.c1 -> before[cmd.r2][cmd.c2]
                            [] r = cmd.r2 /\ c = cmd.c2 -> before[cmd.r1][cmd.c1]
                            [] OTHER -> before[r][c]
        /\ (cmd.r1 = cmd.r2 /\ cmd.c1 = cmd.c2) => state = before

C17_Witness ==
    /\ page = "grid_v2"
    /\ cmd.type = "SWAP"
    /\ cmd.r1 = 0 /\ cmd.c1 = 1 /\ cmd.r2 = 2 /\ cmd.c2 = 0
    /\ state[0][1] # before[0][1]
    /\ state[2][0] = before[0][1]

\* C19: SET_ROW overwrites the three cells of its row with val and leaves
\* the two other rows as they were.
C19_SetRowOverwritesRow ==
    (page \in GridPages /\ cmd.type = "SET_ROW" /\ cmd \in WellFormed(page)) =>
        \A r \in Idx, c \in Idx :
            state[r][c] = IF r = cmd.row THEN cmd.val ELSE before[r][c]

C19_Witness ==
    /\ page = "grid_v1"
    /\ cmd.type = "SET_ROW"
    /\ cmd.row = 1
    /\ cmd.val = 7
    /\ state[1] # before[1]
    /\ state[1][2] = 7

\* C20: ROLL_FORWARD sets front to the old top, bottom to the old front, back
\* to the old bottom and top to the old back, and leaves left and right; the
\* canonical die becomes top 5, front 1, bottom 2, back 6, left 4, right 3.
C20_RollForward ==
    (page = "die" /\ cmd.type = "ROLL_FORWARD") =>
        /\ state.front = before.top
        /\ state.bottom = before.front
        /\ state.back = before.bottom
        /\ state.top = before.back
        /\ state.left = before.left
        /\ state.right = before.right
        /\ before = INITIAL_DIE =>
                state = [top |-> 5, front |-> 1, bottom |-> 2, back |-> 6, left |-> 4, right |-> 3]

C20_Witness ==
    /\ page = "die"
    /\ cmd.type = "ROLL_FORWARD"
    /\ before = INITIAL_DIE
    /\ state.top = 5
    /\ state.front = 1

\* C18: every SWAP generateRandomCommands pushes names two distinct cells,
\* with its four indices in 0..2.
C18_SwapCellsDistinct ==
    (genOut # << >> /\ genOut.kind = "command" /\ genOut.cmd.type = "SWAP") =>
        LET c == genOut.cmd
        IN  /\ {c.r1, c.c1, c.r2, c.c2} \subseteq 0..2
            /\ ~(c.r1 = c.r2 /\ c.c1 = c.c2)

C18_Witness ==
    /\ page = "part_000"
    /\ genOut # << >>
    /\ genOut.kind = "command"
    /\ genOut.cmd.type = "SWAP"
    /\ genOut.redraws = 2
    /\ genOut.cmd.c1 = genOut.cmd.c2

\* --- claims about two die commands in a row
Then(first, second) == page = "die" /\ prevCmd.type = first /\ cmd.type = second

\* C21: ROLL_FORWARD then ROLL_BACKWARD, and ROLL_BACKWARD then ROLL_FORWARD,
\* return the die they started from.
C21_RollForwardBackwardInverse ==
    (Then("ROLL_FORWARD", "ROLL_BACKWARD") \/ Then("ROLL_BACKWARD", "ROLL_FORWARD")) =>
        state = before2

C21_Witness ==
    /\ Then("ROLL_BACKWARD", "ROLL_FORWARD")
    /\ before2 # INITIAL_DIE
    /\ before # before2
    /\ state = before2

\* C22: ROTATE_CW sets right to the old front, back to the old right, left to
\* the old back and front to the old left and leaves top and bottom;
\* ROTATE_CCW undoes it and is undone by it.
C22_RotateCwAndInverse ==
    /\ (page = "die" /\ cmd.type = "ROTATE_CW") =>
            /\ state.right = before.front
            /\ state.back = before.right
            /\ state.left = before.back
            /\ state.front = before.left
            /\ state.top = before.top
            /\ state.bottom = before.bottom
    /\ (Then("ROTATE_CW", "ROTATE_CCW") \/ Then("ROTATE_CCW", "ROTATE_CW")) =>
            state = before2

C22_Witness ==
    /\ Then("ROTATE_CW", "ROTATE_CCW")
    /\ before2.top # 1
    /\ before.front # before2.front
    /\ state = before2

\* C23: four ROTATE_CW in a row return the die they started from.
C23_FourDieRotationsReturn ==
    (page = "die" /\ runLen = 4) => state = runBase

C23_Witness ==
    /\ page = "die"
    /\ runLen = 4
    /\ runBase # INITIAL_DIE
    /\ before # state
    /\ state = runBase

\* C24: ROLL_LEFT moves top to left, left to bottom, bottom to right and right
\* to top, ROLL_RIGHT moves them the other way round; both leave front and
\* back, and each undoes the other.
C24_RollLeftRight ==
    /\ (page = "die" /\ cmd.type = "ROLL_LEFT") =>
            /\ state.left = before.top /\ state.bottom = before.left
            /\ state.right = before.bottom /\ state.top = before.right
            /\ state.front = before.front /\ state.back = before.back
    /\ (page = "die" /\ cmd.type = "ROLL_RIGHT") =>
            /\ state.right = before.top /\ state.bottom = before.right
            /\ state.left = before.bottom /\ state.top = before.left
            /\ state.front = before.front /\ state.back = before.back
    /\ (Then("ROLL_LEFT", "ROLL_RIGHT") \/ Then("ROLL_RIGHT", "ROLL_LEFT")) =>
            state = before2

C24_Witness ==
    /\ Then("ROLL_LEFT", "ROLL_RIGHT")
    /\ before2.front # 2
    /\ before.top # before2.top
    /\ state = before2

\* C29: after any sequence of die commands from the canonical die the six
\* faces hold each of 1..6 once.
C29_FacesArePermutation ==
    (page = "die" /\ initial = INITIAL_DIE) =>
        /\ DOMAIN state = Faces
        /\ \A v \in 1..6 : Cardinality({f \in Faces : state[f] = v}) = 1

C29_Witness ==
    /\ page = "die"
    /\ steps = MaxSteps
    /\ state.top = 6
    /\ state.front = 4
    /\ cmd.type = "ROTATE_CCW"

\* C30: scoring an incomplete answer of the voxel game is defined: a
\* coordinate the user never filled, or left empty, is scored correct exactly
\* when the value expected there is the empty string, the count of correct
\* coordinates never exceeds the total, and the total is 27.
Unanswered(z, y, x) ==
    CellKey(z, y, x) \notin DOMAIN userInput \/ userInput[CellKey(z, y, x)] = << >>

C30_UnansweredScoredAsEmpty ==
    (page = "voxel" /\ phase = "result") =>
        /\ \A z \in Idx, y \in Idx, x \in Idx :
                Unanswered(z, y, x) =>
                    (cellCorrect(finalState, userInput, z, y, x)
                        <=> actualVal(finalState, x, y, z) = << >>)
        /\ getResultStats(finalState, userInput).total = 27
        /\ getResultStats(finalState, userInput).correct \in 0..27

\* A scored answer with a filled coordinate, an unanswered coordinate that
\* is correct and an unanswered coordinate that is not.
C30_Witness ==
    /\ page = "voxel"
    /\ phase = "result"
    /\ \E k \in DOMAIN userInput : userInput[k] # << >>
    /\ \E z \in Idx, y \in Idx, x \in Idx :
            /\ CellKey(z, y, x) \notin DOMAIN userInput
            /\ cellCorrect(finalState, userInput, z, y, x)
    /\ \E z \in Idx, y \in Idx, x \in Idx :
            /\ CellKey(z, y, x) \notin DOMAIN userInput
            /\ ~cellCorrect(finalState, userInput, z, y, x)

\* C26: between two starts of a session exactly one submit occurs: a session
\* starts only from phase idle, and then either it is the first or the one
\* before it was submitted once; idle is entered only from phase result;
\* result is entered only from the question phase, by the one submit of the
\* session.
C26_OneSubmitPerSession ==
    [][/\ started' # started \/ submits' < submits
            => (phase = "idle" /\ (~started \/ submits = 1))
       /\ (phase = "idle" /\ phase' # "idle") => (started' /\ submits' = 0)
       /\ (phase # "idle" /\ phase' = "idle") => (phase = "result" /\ submits = 1)
       /\ (phase # "result" /\ phase' = "result")
            => (phase = QuestionPhase(page) /\ submits = 0 /\ submits' = 1)
       /\ submits' # submits => (submits' = 0 \/ phase' = "result")]_vars

\* A second session is running after the first was submitted and scored:
\* startGame left currentCommandIdx where the first session's commands ended.
C26_Witness ==
    /\ started
    /\ submits = 0
    /\ phase = MemorizePhase(page)
    /\ currentCommandIdx = NumCommands

\* --- claims about the command generators
\* The commands the last generator call returned, or pushed in one iteration.
Generated ==
    CASE genOut = << >> -> {}
      [] genOut.kind = "command" -> {genOut.cmd}
      [] genOut.kind = "commands" -> SeqRange(genOut.commands)
      [] OTHER -> {}

DigitValue(ch) == CHOOSE d \in 0..9 : Digit(d) = ch

\* The numbers a description names, in the order it names them; acc is the
\* number being read, -1 between numbers.
RECURSIVE ReadNumbers(_, _, _)
ReadNumbers(desc, k, acc) ==
    LET done == IF acc >= 0 THEN <<acc>> ELSE << >>
    IN  IF k > Len(desc) THEN done
        ELSE IF desc[k] \in DigitChars
             THEN ReadNumbers(desc, k + 1,
                              (IF acc >= 0 THEN 10 * acc ELSE 0) + DigitValue(desc[k]))
             ELSE done \o ReadNumbers(desc, k + 1, -1)

NumbersNamed(desc) == ReadNumbers(desc, 1, -1)

\* The text of a description around its numbers.
WordsNamed(desc) == SelectSeq(desc, LAMBDA piece : piece \notin DigitChars)

\* The axis a piece of a laser description announces: Col is x, Row is y,
\* Depth is z.
AxisNamed(piece) ==
    CASE piece \in {"Fire Laser Front-to-Back at Col ", "Fire Laser Top-Down at Col "} -> "x"
      [] piece \in {"Fire Laser Side-to-Side at Row ", ", Row "} -> "y"
      [] piece = ", Depth " -> "z"
      [] OTHER -> "none"

\* The cells of the full cube a laser command destroys when it is executed.
Destroyed(c) ==
    {<<v.x, v.y, v.z>> : v \in {w \in SeqRange(applyCommand(createCube, c)) : ~w.active}}

\* The cells the description of a laser announces: number n on an axis is the
\* index n - 1.
Announced(desc) ==
    LET w == WordsNamed(desc)
        n == NumbersNamed(desc)
    IN  {q \in Idx \X Idx \X Idx :
            LET at == [x |-> q[1], y |-> q[2], z |-> q[3]]
            IN  at[AxisNamed(w[1])] = n[1] - 1 /\ at[AxisNamed(w[2])] = n[2] - 1}

LaserTextConsistent(c) ==
    /\ Len(NumbersNamed(c.description)) = 2
    /\ Len(WordsNamed(c.description)) = 2
    /\ \A k \in 1..2 : AxisNamed(WordsNamed(c.description)[k]) # "none"
    /\ NumbersNamed(c.description) = <<c.targetIndex1 + 1, c.targetIndex2 + 1>>
    /\ Destroyed(c) = Announced(c.description)

\* Executed on the ordered grid, the swap exchanges the two cells the
\* description names and changes no other cell.
SwapTextConsistent(pg, c) ==
    LET n == NumbersNamed(c.description)
        after == applyGridCommand(pg, OrderedGrid, c)
    IN  /\ n = <<c.r1, c.c1, c.r2, c.c2>>
        /\ after[n[1]][n[2]] = OrderedGrid[n[3]][n[4]]
        /\ after[n[3]][n[4]] = OrderedGrid[n[1]][n[2]]
        /\ \A r \in Idx, k \in Idx :
                (<<r, k>> \notin {<<n[1], n[2]>>, <<n[3], n[4]>>})
                    => after[r][k] = OrderedGrid[r][k]

\* Executed on the ordered grid, the row set zeroes the row the description
\* names, counted from 1, and no other.
SetRowTextConsistent(pg, c) ==
    LET n == NumbersNamed(c.description)
        w == WordsNamed(c.description)
        after == applyGridCommand(pg, OrderedGrid, c)
    IN  /\ n = <<c.row + 1>>
        /\ w = <<"Set Row ", " to all Zeros">>
        /\ c.val = 0
        /\ \A r \in Idx, k \in Idx :
                after[r][k] = IF r = n[1] - 1 THEN 0 ELSE OrderedGrid[r][k]

\* C27: the description of every generated command agrees with the
\* parameters it is executed with: a SWAP names (r1,c1) and (r2,c2), a SET_ROW
\* names row + 1 and zeros with val = 0, a laser names targetIndex1 + 1 and
\* targetIndex2 + 1 on the two axes its type tests.
C27_DescriptionMatchesParameters ==
    \A c \in Generated :
        /\ c.type = "SWAP" => SwapTextConsistent(page, c)
        /\ c.type = "SET_ROW" => SetRowTextConsistent(page, c)
        /\ c.type \in LaserTypes => LaserTextConsistent(c)

\* One call returned a laser of each type, or a swap and a row set.
C27_Witness ==
    /\ genOut # << >>
    /\ genOut.kind = "commands"
    /\ \/ /\ page = "voxel"
          /\ {"LASER_X", "LASER_Y"} \subseteq {c.type : c \in Generated}
          /\ \E c \in Generated : c.type = "LASER_X" /\ c.targetIndex1 # c.targetIndex2
       \/ /\ page \in GridPages
          /\ {"SWAP", "SET_ROW"} \subseteq {c.type : c \in Generated}

\* C28: every generated command carries the parameters of its kind, in
\* range: a SWAP r1, c1, r2, c2 in 0..2, a SET_ROW a row in 0..2 and a numeric
\* val, a laser targetIndex1 and targetIndex2 in 0..2; and a generator called
\* with count n returns n commands.
C28_ParametersPresentCountKept ==
    /\ \A c \in Generated :
        /\ c.type = "SWAP" =>
                (c.hasParams /\ {c.r1, c.c1, c.r2, c.c2} \subseteq 0..2)
        /\ c.type = "SET_ROW" =>
                (c.hasParams /\ c.row \in 0..2 /\ IsNumber(c.val) /\ c.val \in Int)
        /\ c.type \in LaserTypes => {c.targetIndex1, c.targetIndex2} \subseteq 0..2
        /\ c.type \in CASE page = "voxel" -> {"ROTATE_Y"} \cup LaserTypes
                        [] page = "die" -> DieTypes
                        [] OTHER -> {"ROTATE_CW", "SWAP", "SET_ROW"}
    /\ (genOut # << >> /\ genOut.kind = "commands") =>
            Len(genOut.commands) = genOut.count

\* A call with the largest count returned that many commands.
C28_Witness ==
    /\ genOut # << >>
    /\ genOut.kind = "commands"
    /\ genOut.count = MaxCount
    /\ Len(genOut.commands) = MaxCount
    /\ \E c \in Generated : c.type \in LaserTypes \cup {"SWAP", "SET_ROW"} \cup DieTypes

\* --- claims about the scoring of a grid answer
\* What the claim calls the string parsed as an integer: the number a string
\* of digits writes; an empty string writes none.
WritesNumber(str, n) == str # << >> /\ IsDigits(str) /\ NumbersNamed(str) = <<n>>

\* The cells of the answer that do not write the expected number.
Mismatched == {q \in Idx \X Idx : ~WritesNumber(userInput[q[1]][q[2]], finalState[q[1]][q[2]])}

\* C25: on the result screen of a grid page a cell is correct if and only if
\* the string the user entered writes the expected number of the cell, and an
\* empty cell is never correct; for the final grid 1..9 an identical answer
\* has 9 correct cells and an answer with one mismatched cell has 8.
C25_GridCellCorrectIffEqual ==
    (page \in GridPages /\ phase = "result") =>
        /\ \A r \in Idx, c \in Idx :
            /\ isCorrect(userInput, finalState, r, c)
                    <=> WritesNumber(userInput[r][c], finalState[r][c])
            /\ userInput[r][c] = << >> => ~isCorrect(userInput, finalState, r, c)
        /\ (finalState = OrderedGrid /\ Mismatched = {})
                => Cardinality(correctCells(userInput, finalState)) = 9
        /\ (finalState = OrderedGrid /\ Cardinality(Mismatched) = 1)
                => Cardinality(correctCells(userInput, finalState)) = 8

\* The final grid 1..9 scored with one wrong number in an answer otherwise
\* identical.
C25_Witness ==
    /\ page \in GridPages
    /\ phase = "result"
    /\ finalState = OrderedGrid
    /\ Cardinality(Mismatched) = 1
    /\ \A r \in Idx, c \in Idx : userInput[r][c] # << >>
    /\ Cardinality(correctCells(userInput, finalState)) = 8

\* --- claims about the start of the voxel game
\* C32: createCube returns 27 cells, all present, the cell at (x, y, z)
\* carrying id = val = 1 + x + 3y + 9z, so the front slice holds 1..9, the
\* middle slice 10..18 and the back slice 19..27.
C32_CreateCubeScanOrder ==
    (page = "voxel" /\ initial # << >>) =>
        /\ Len(initial) = 27
        /\ \A i \in 1..Len(initial) :
            LET v == initial[i]
            IN  /\ v.active
                /\ {v.x, v.y, v.z} \subseteq Idx
                /\ v.id = 1 + v.x + 3 * v.y + 9 * v.z
                /\ v.val = v.id
                /\ v.val \in (9 * v.z + 1)..(9 * v.z + 9)
        /\ \A q \in Idx \X Idx \X Idx :
            Cardinality({i \in 1..Len(initial) :
                            initial[i].x = q[1] /\ initial[i].y = q[2] /\ initial[i].z = q[3]}) = 1

\* The cube createCube returned is the start of a run; its cell 12 is in the
\* middle slice, row 0, column 2.
C32_Witness ==
    /\ page = "voxel"
    /\ initial # << >>
    /\ steps > 0
    /\ \E i \in 1..Len(initial) :
            initial[i].val = 12 /\ initial[i].x = 2 /\ initial[i].y = 0 /\ initial[i].z = 1

\* --- claims about the lookup of a voxel by its coordinate
\* The voxels of a cube recorded at (x, y, z).
VoxelsAt(voxels, x, y, z) ==
    {i \in 1..Len(voxels) : voxels[i].x = x /\ voxels[i].y = y /\ voxels[i].z = z}

\* C33: in every cube reachable from createCube, at a coordinate where a
\* present voxel is recorded the scorer expects that voxel's number and the
\* slice view shows it: a destroyed voxel at the coordinate does not hide it.
C33_PresentVoxelNotHidden ==
    (page = "voxel" /\ initial = createCube /\ outcome # "TypeError") =>
        \A x \in Idx, y \in Idx, z \in Idx :
            \A i \in VoxelsAt(state, x, y, z) :
                state[i].active =>
                    /\ actualVal(state, x, y, z) = NumToString(state[i].val)
                    /\ sliceCell(state, z, y, x) = <<state[i].val>>

\* C34: in every cube reachable from createCube each of the 27 coordinates
\* is recorded by exactly one voxel, present or destroyed.
C34_OneVoxelPerCoordinate ==
    (page = "voxel" /\ initial = createCube /\ outcome # "TypeError") =>
        \A x \in Idx, y \in Idx, z \in Idx :
            Cardinality(VoxelsAt(state, x, y, z)) = 1

\* --- claims about the present cells along a run of commands
\* The identities of the present cells of a cube.
Present(voxels) == {voxels[i].id : i \in {k \in 1..Len(voxels) : voxels[k].active}}

\* C37: no command of the voxel game makes a destroyed cell present again:
\* the present identities after a call are among those before it, a rotation
\* keeps them all and a laser command removes at most 3.
C37_DestroyedStaysDestroyed ==
    (page = "voxel" /\ steps > 0) =>
        /\ Present(state) \subseteq Present(before)
        /\ cmd.type = "ROTATE_Y" => Present(state) = Present(before)
        /\ cmd.type \in LaserTypes => Cardinality(Present(before) \ Present(state)) <= 3

\* A laser crosses a line destroyed before: it removes two cells and the
\* three destroyed before stay destroyed.
C37_Witness ==
    /\ page = "voxel"
    /\ cmd.type \in LaserTypes
    /\ Cardinality(Present(before)) = 24
    /\ Cardinality(Present(state)) = 22

\* --- claims about the values of the grid along a run of commands
\* How many cells of a grid hold the value v.
Count(grid, v) == Cardinality({q \in Idx \X Idx : grid[q[1]][q[2]] = v})

Values(grid) == {grid[q[1]][q[2]] : q \in Idx \X Idx}

\* C40: a call with a command the generator can push keeps the grid 3 rows of
\* 3 cells; ROTATE_CW and SWAP keep the multiset of the nine values; SET_ROW
\* changes cells of its row only; and every value after the call is a value
\* of the grid before it or the constant 0 of SET_ROW.
C40_GridValuesKept ==
    (page \in GridPages /\ steps > 0 /\ cmd \in GridCommands(page)) =>
        /\ outcome = "ok"
        /\ DOMAIN state = Idx
        /\ \A r \in Idx : DOMAIN state[r] = Idx
        /\ cmd.type \in {"ROTATE_CW", "SWAP"} =>
                \A v \in Values(before) \cup Values(state) : Count(state, v) = Count(before, v)
        /\ cmd.type = "SET_ROW" =>
                \A r \in Idx \ {cmd.row}, c \in Idx : state[r][c] = before[r][c]
        /\ Values(state) \subseteq Values(before) \cup {0}
        /\ Values(state) \subseteq Int

\* The second rotation of a run on a grid that holds three values, each in
\* three cells.
C40_Witness ==
    /\ page \in GridPages
    /\ cmd.type = "ROTATE_CW"
    /\ runLen = 2
    /\ state # before
    /\ Cardinality(Values(before)) = 3
    /\ \A v \in Values(state) : Count(state, v) = 3

\* --- claims about the history of a session
\* C38: in a started session the configuration scored against is the one of
\* the last history entry; entry k has stepIndex k; entry 0 carries the start
\* description and entry i + 1 the description of command i; the history has
\* one entry more than the command list.
C38_FinalIsLastHistoryEntry ==
    (HasHistory(page) /\ started) =>
        /\ Len(history) = Len(commandList) + 1
        /\ finalState = Snapshot(page, history[Len(history)])
        /\ \A k \in 0..Len(commandList) : history[k + 1].stepIndex = k
        /\ history[1].commandDescription \in
                {<<"Start Configuration">>, <<"Start Configuration (1-9)">>, <<"Initial Position">>}
        /\ \A i \in 1..Len(commandList) :
                history[i + 1].commandDescription = commandList[i].description

\* A die session in its question phase whose two commands differ and whose
\* final state is not the initial one.
C38_Witness ==
    /\ page = "die"
    /\ phase = "question"
    /\ Len(history) = NumCommands + 1
    /\ finalState # INITIAL_DIE
    /\ history[2].commandDescription # history[Len(history)].commandDescription
    /\ history[Len(history)].resultState = finalState

\* --- claims about what an input event changes
\* C31: an input of the user changes the user answer only: whenever the user
\* answer changes outside startGame, the final configuration, the command
\* list, the history, the original grid, the phase and the timers stay; and
\* the final configuration, the command list and the history change in no
\* step but startGame, which is taken in phase idle.
C31_InputChangesAnswerOnly ==
    [][/\ (phase # "idle" /\ userInput' # userInput)
            => UNCHANGED <<finalState, commandList, history, originalGrid, targetFace,
                           phase, timers, currentCommandIdx, showCommandText>>
       /\ (finalState' # finalState \/ commandList' # commandList \/ history' # history)
            => (phase = "idle" /\ phase' # "idle")]_vars

\* An answer of two filled cells in a grid session.
C31_Witness ==
    /\ page \in GridPages
    /\ phase = QuestionPhase(page)
    /\ \A q \in GridInputCells : userInput[q[1]][q[2]] # << >>
    /\ finalState # << >>
    /\ \E q \in GridInputCells : parseInt(userInput[q[1]][q[2]]) # finalState[q[1]][q[2]]

IndicesOf(cmds) == [k \in 1..Len(cmds) |-> k - 1]

\* C35: in every session of a page with the phase effect, a later session
\* that starts with currentCommandIdx left at the end of the previous list
\* included, the texts displayed so far are those of the commands 0, 1, ...
\* in increasing order, each once, and the question (reconstruction) or
\* result phase is on only after all of 0..len-1 were displayed.
C35_EveryTextShownOnceInOrder ==
    HasEffect(page) =>
        /\ Len(shown) <= Len(commandList)
        /\ \A k \in 1..Len(shown) : shown[k] = k - 1
        /\ (phase \in {QuestionPhase(page), "result"}) => shown = IndicesOf(commandList)

C35_Witness ==
    /\ HasEffect(page)
    /\ phase = QuestionPhase(page)
    /\ idxAtRun = Len(commandList)
    /\ Len(commandList) = NumCommands
    /\ shown = IndicesOf(commandList)

\* The phase changes of a session nobody submits.
PhaseOrder(pg) ==
    IF HasEffect(pg)
    THEN {<<"idle", MemorizePhase(pg)>>, <<MemorizePhase(pg), RunningPhase(pg)>>,
          <<RunningPhase(pg), QuestionPhase(pg)>>}
    ELSE {<<"idle", QuestionPhase(pg)>>}

\* C36: when the timer callbacks are run fairly and the user does nothing
\* after startGame, every started session reaches the question
\* (reconstruction) phase and stays in it; the phase changes only from idle
\* to memorize, from memorize to running and from running to question, and
\* is never result.
C36_SessionReachesQuestion ==
    /\ started ~> (phase = QuestionPhase(page))
    /\ [](phase = QuestionPhase(page) => [](phase = QuestionPhase(page)))
    /\ [][phase' # phase => <<phase, phase'>> \in PhaseOrder(page)]_vars
    /\ [](phase # "result")

C36_Witness ==
    /\ HasEffect(page)
    /\ started
    /\ phase = QuestionPhase(page)
    /\ timers = {}
    /\ submits = 0
    /\ currentCommandIdx = NumCommands
====
